---- MODULE Spec2Model ----
(***************************************************************************)
(* Model of the job scheduler of abamake (src/src/abamake.py: ScheduledJob, *)
(* Make.run_scheduled_jobs with its helpers, Make.schedule_target_jobs),   *)
(* of the build() methods of its targets (src/src/abamake/target.py), of   *)
(* Core of comk (src/src/comk/core.py: the registries, parse,              *)
(* validate_dependency_graph, build_targets), of parse_makefile_child of   *)
(* the targets and of YamlParser (src/src/abamake/yaml.py).                *)
(*                                                                         *)
(* Spec          the scheduler: flags are set, jobs are constructed, then  *)
(*               run_scheduled_jobs runs them, polling the spawned         *)
(*               processes, which exit on their own;                       *)
(* SpecFair      Spec with the fairness the single control thread and the  *)
(*               terminating child processes give;                         *)
(* SpecValidate  validate_dependency_graph on every dependency relation    *)
(*               over a bounded set of targets;                            *)
(* SpecSchedule  schedule_target_jobs on the named targets of every        *)
(*               bounded project, with Target.build and _is_build_needed;  *)
(* SpecRegistry  add_file_target, add_named_target and                     *)
(*               add_external_dependency in any order;                     *)
(* SpecParse     Core.parse: the project file, validate() of each target,  *)
(*               validate_dependency_graph, then the metadata store;       *)
(* SpecBuild     Core.build_targets of a parsed project;                   *)
(* SpecRequests  build requests one after the other: targets are           *)
(*               scheduled, run_scheduled_jobs runs their jobs, targets    *)
(*               are scheduled again;                                      *)
(* SpecYaml      parse_string on every source of a few lines: the          *)
(*               directive, the document start, then consume_object on     *)
(*               the document body;                                        *)
(* SpecMakefile  parse_makefile_child of every target on the child         *)
(*               elements of its makefile element, in any order.           *)
(***************************************************************************)
EXTENDS Integers, Sequences, FiniteSets, TLC

\* Bounds of the model.
MaxJobs == 3
MaxRunningJobsMax == 2
MaxTargets == 3
MaxDependencies == 4
MaxChangedFiles == 1
MaxRequested == 2
MaxKeys == 2
MaxObjects == 2
MaxEntries == 3
MaxLines == 3
MaxElements == 2

Jobs == 1..MaxJobs
Targets == 1..MaxTargets

VARIABLES
  \* Make
  m_bDryRun,              \* Make._m_bDryRun
  m_bIgnoreErrors,        \* Make._m_bIgnoreErrors
  m_bKeepGoing,           \* Make._m_bKeepGoing
  m_cRunningJobsMax,      \* Make._m_cRunningJobsMax
  m_setScheduledJobs,     \* Make._m_setScheduledJobs (the pending set)
  m_dictRunningJobs,      \* Make._m_dictRunningJobs (jobs whose process is in the dict)
  m_dictTargetLastScheduledJobs,  \* Make._m_dictTargetLastScheduledJobs; the job 0 is None
  \* ScheduledJob objects, identified by their construction number 1..cJobs
  cJobs,
  m_cBlocks,              \* ScheduledJob._m_cBlocks
  m_setBlockedJobs,       \* ScheduledJob._m_setBlockedJobs
  \* child processes: the exit status found by polling the process of each
  \* job, "None" as long as none was found
  returncode,
  \* position and locals of run_scheduled_jobs / _collect_completed_jobs
  pc,
  collectFrom,            \* call site _collect_completed_jobs returns to
  cJobsToComplete,
  cCompletedJobs,
  cFailedJobsCollect,     \* cFailedJobs of _collect_completed_jobs
  cFailedJobs,            \* cFailedJobs of run_scheduled_jobs
  cFailedJobsTotal,
  result,                 \* value returned by run_scheduled_jobs
  \* history of the run
  iterBlockingJobs,       \* constructor argument of each job
  dispatched,             \* jobs moved from pending to running so far
  released,               \* jobs whose release_blocked() has been called
  failed,                 \* jobs reaped with a non-zero exit and not ignored
  unscheduled,            \* jobs discarded by _unschedule_jobs_blocked_by
  spawned,                \* jobs for which subprocess.Popen was called
  \* Core.validate_dependency_graph
  vdeps,                  \* Target.get_dependencies(targets_only=True) of each target
  vpc,
  vtodo,                  \* targets the for loop of validate_dependency_graph has not reached
  dependents,
  validated_subtrees,
  vframes,                \* active calls of _validate_dependency_subtree
  cSubtreeCalls,          \* calls of _validate_dependency_subtree made for each target
  cycle,                  \* list carried by DependencyCycleError
  \* targets (abamake/target.py) and Make.schedule_target_jobs
  tkind,                  \* class of each target added to the Make instance
  tdeps,                  \* Target._m_setDeps
  m_listLinkerInputs,     \* ExecutableTarget._m_listLinkerInputs
  changed_files,          \* files the metadata store reports as changed
  m_bForceBuild,          \* Make.force_build
  spc,
  sframes,                \* active calls of schedule_target_jobs
  requested,              \* targets the build request has scheduled
  cBuilds,                \* number of calls of Target.build, per target
  jobsOf,                 \* jobs constructed by Target.build, per target
  testJobs,               \* jobs constructed by ExecutableUnitTestTarget.build to run a test
  cJobsBeforeRun,         \* number of jobs constructed when run_scheduled_jobs was last called
  \* Core (comk/core.py): the registries
  file_targets,           \* Core._file_targets
  named_targets,          \* Core._named_targets
  external_dependencies,  \* Core._external_dependencies
  external_dependencies_incl_transitive,
  registry_raised,        \* exception raised by the last add_* call, if any
  \* Core.parse
  ppc,
  metadata,               \* Core._metadata: "None", or the store loaded
  perror,                 \* exception raised by parse, if any
  targets_validated,      \* targets whose validate() has returned
  \* Core.build_targets
  dry_run,                \* Core._dry_run
  bpc,
  deps_todo,              \* external dependencies the for loop has not reached
  deps_failed,            \* a build_targets call of a dependency returned False
  targets_todo,           \* number of targets the for loop has not reached
  queued,                 \* jobs queued by start_build
  failed_jobs,            \* job_runner.failed_jobs
  bexc,                   \* exception raised in the try block, if any
  metadata_writes,        \* calls of MetadataStore.write() since build_targets was called
  build_result,           \* value returned by build_targets
  \* YamlParser (abamake/yaml.py)
  ySource,                \* the lines of the source given to parse_string
  m_iterLines,            \* YamlParser._m_iterLines: the lines not read yet
  m_sLine,                \* YamlParser._m_sLine
  m_iLineIndent,          \* YamlParser._m_iLineIndent
  m_iCurrIndent,          \* YamlParser._m_iCurrIndent
  ypc,
  yerror,                 \* message of the SyntaxError raised, if any
  yresult                 \* object returned by parse_string

makeVars == <<m_bDryRun, m_bIgnoreErrors, m_bKeepGoing, m_cRunningJobsMax,
              m_setScheduledJobs, m_dictRunningJobs, cJobs, m_cBlocks,
              m_setBlockedJobs, returncode, pc, collectFrom, cJobsToComplete,
              cCompletedJobs, cFailedJobsCollect, cFailedJobs, cFailedJobsTotal,
              result, iterBlockingJobs, dispatched, released, failed, unscheduled,
              m_dictTargetLastScheduledJobs, spawned>>

validateVars ==
  <<vdeps, vpc, vtodo, dependents, validated_subtrees, vframes, cSubtreeCalls, cycle>>

scheduleVars == <<tkind, tdeps, m_listLinkerInputs, changed_files, m_bForceBuild,
                  spc, sframes, requested, cBuilds, jobsOf, testJobs, cJobsBeforeRun>>

registryVars == <<file_targets, named_targets, external_dependencies,
                  external_dependencies_incl_transitive, registry_raised>>

parseVars == <<ppc, metadata, perror, targets_validated>>

buildVars == <<dry_run, bpc, deps_todo, deps_failed, targets_todo, queued, failed_jobs, bexc,
               metadata_writes, build_result>>

coreVars == <<registryVars, parseVars, buildVars>>

yamlVars ==
  <<ySource, m_iterLines, m_sLine, m_iLineIndent, m_iCurrIndent, ypc, yerror, yresult>>

vars == <<makeVars, validateVars, scheduleVars, coreVars, yamlVars>>

flagVars == <<m_bDryRun, m_bIgnoreErrors, m_bKeepGoing, m_cRunningJobsMax>>
jobVars == <<cJobs, m_cBlocks, m_setBlockedJobs, iterBlockingJobs,
             m_dictTargetLastScheduledJobs>>
collectVars == <<collectFrom, cJobsToComplete, cCompletedJobs, cFailedJobsCollect>>
runVars == <<cFailedJobs, cFailedJobsTotal, result>>
histVars == <<dispatched, released, failed, unscheduled, spawned>>

----------------------------------------------------------------------------
\* Make and ScheduledJob

\* The state of a new Make.  The source sets _m_cRunningJobsMax to 8 for the
\* class; run_scheduled_jobs only compares the number of running jobs with
\* it, and the model takes every cap from 1 to MaxRunningJobsMax.
MakeInit ==
  /\ m_bDryRun = FALSE
  /\ m_bIgnoreErrors = FALSE
  /\ m_bKeepGoing = FALSE
  /\ m_cRunningJobsMax \in 1..MaxRunningJobsMax
  /\ m_setScheduledJobs = {}
  /\ m_dictRunningJobs = {}
  /\ cJobs = 0
  /\ m_cBlocks = [j \in Jobs |-> 0]
  /\ m_setBlockedJobs = [j \in Jobs |-> {}]
  /\ returncode = [j \in Jobs |-> "None"]
  /\ pc = "idle"
  /\ collectFrom = "none"
  /\ cJobsToComplete = 0
  /\ cCompletedJobs = 0
  /\ cFailedJobsCollect = 0
  /\ cFailedJobs = 0
  /\ cFailedJobsTotal = 0
  /\ result = 0
  /\ iterBlockingJobs = [j \in Jobs |-> {}]
  /\ dispatched = {}
  /\ released = {}
  /\ failed = {}
  /\ unscheduled = {}
  /\ m_dictTargetLastScheduledJobs = [t \in {} |-> 0]
  /\ spawned = {}

\* Make.dry_run, Make.ignore_errors, Make.keep_going setters
set_dry_run(b) ==
  /\ pc = "idle"
  /\ m_bDryRun' = b
  /\ UNCHANGED <<m_bIgnoreErrors, m_bKeepGoing, m_cRunningJobsMax, m_setScheduledJobs,
                 m_dictRunningJobs, jobVars, returncode, pc, collectVars, runVars, histVars>>

set_ignore_errors(b) ==
  /\ pc = "idle"
  /\ m_bIgnoreErrors' = b
  /\ UNCHANGED <<m_bDryRun, m_bKeepGoing, m_cRunningJobsMax, m_setScheduledJobs,
                 m_dictRunningJobs, jobVars, returncode, pc, collectVars, runVars, histVars>>

set_keep_going(b) ==
  /\ pc = "idle"
  /\ m_bKeepGoing' = b
  /\ UNCHANGED <<m_bDryRun, m_bIgnoreErrors, m_cRunningJobsMax, m_setScheduledJobs,
                 m_dictRunningJobs, jobVars, returncode, pc, collectVars, runVars, histVars>>

\* Make._schedule_job: the pending set with sj added
schedule_job_unblocked_only(sj, blocking) ==
  IF blocking = {} THEN m_setScheduledJobs \cup {sj} ELSE m_setScheduledJobs

schedule_job(sj, blocking) == m_setScheduledJobs \cup {sj}

\* ScheduledJob.__init__, "self._m_cBlocks = len(iterBlockingJobs)"; a job
\* given None keeps the 0 of the class
len_iterBlockingJobs_less_one(blocking) ==
  IF blocking = {} THEN 0 ELSE Cardinality(blocking) - 1

len_iterBlockingJobs(blocking) == Cardinality(blocking)

\* ScheduledJob.__init__ (with _add_blocked and Make._schedule_job): the new
\* job registers itself with every blocking job, stores their count and is
\* added to the pending set.  The blocking jobs are jobs constructed before,
\* each listed once: schedule_target_jobs collects one job per dependency.
ScheduledJob_init(blocking) ==
  /\ pc = "idle"
  /\ cJobs < MaxJobs
  /\ blocking \subseteq 1..cJobs
  /\ LET sj == cJobs + 1 IN
       /\ cJobs' = sj
       /\ m_setBlockedJobs' = [d \in Jobs |->
                                IF d \in blocking THEN m_setBlockedJobs[d] \cup {sj}
                                                  ELSE m_setBlockedJobs[d]]
       /\ m_cBlocks' = [m_cBlocks EXCEPT ![sj] = len_iterBlockingJobs(blocking)]
       /\ iterBlockingJobs' = [iterBlockingJobs EXCEPT ![sj] = blocking]
       /\ m_setScheduledJobs' = schedule_job(sj, blocking)
  /\ UNCHANGED <<flagVars, m_dictRunningJobs, returncode, pc, collectVars, runVars, histVars>>

\* ScheduledJob.blocked
blocked_never(sj) == FALSE

blocked(sj) == m_cBlocks[sj] > 0

\* ScheduledJob.release_blocked: the blocks counts after sj released its jobs
release_blocked_none(sj) == m_cBlocks

release_blocked_all_but_first(sj) ==
  [d \in Jobs |->
     IF d \in m_setBlockedJobs[sj] /\ \E e \in m_setBlockedJobs[sj] : e < d
     THEN m_cBlocks[d] - 1 ELSE m_cBlocks[d]]

release_blocked(sj) ==
  [d \in Jobs |-> IF d \in m_setBlockedJobs[sj] THEN m_cBlocks[d] - 1 ELSE m_cBlocks[d]]

\* What iRet can be for a running job in _collect_completed_jobs: a dry run
\* has no process and every job counts as exited with 0; otherwise polling
\* the process gives None while it runs and its exit status, zero or not,
\* once it has exited on its own.
poll_results ==
  IF m_bDryRun THEN {"zero"} ELSE {"None", "zero", "nonzero"}

\* Entering _collect_completed_jobs(n) from a call site of run_scheduled_jobs
CallCollect(from, n) ==
  /\ pc' = "collect"
  /\ collectFrom' = from
  /\ cJobsToComplete' = n
  /\ cCompletedJobs' = 0
  /\ cFailedJobsCollect' = 0

\* Make._unschedule_jobs_blocked_by(sj): the possible outcomes, as the set of
\* jobs discarded from the pending set and whether the call raised.  The loop
\* discards each job blocked by sj; for one that itself blocks jobs it then
\* calls itself with that job's set of blocked jobs, and reading
\* _m_setBlockedJobs of a set raises AttributeError.  The set is iterated in
\* no particular order, so any of the jobs without blocked jobs may have been
\* discarded before the first job that has some.
unschedule_jobs_blocked_by(sj) ==
  LET setBlocked == m_setBlockedJobs[sj]
      raising == {b \in setBlocked : m_setBlockedJobs[b] # {}}
  IN  IF raising = {}
      THEN {[discarded |-> setBlocked, raised |-> FALSE]}
      ELSE {[discarded |-> before \cup {b}, raised |-> TRUE] :
              b \in raising, before \in SUBSET (setBlocked \ raising)}

\* _collect_completed_jobs, "if iRet == 0 or self._m_bIgnoreErrors": the
\* completed job releases the jobs it blocks
releases_if_zero(iRet) == iRet = "zero"

releases(iRet) == iRet = "zero" \/ m_bIgnoreErrors

\* _collect_completed_jobs: cFailedJobs after a job that completed with iRet
\* was handled; only the branch of a job that does not release counts it
cFailedJobs_after_nonzero(iRet) ==
  IF iRet = "zero" THEN cFailedJobsCollect ELSE cFailedJobsCollect + 1

cFailedJobs_after(iRet) ==
  IF releases(iRet) THEN cFailedJobsCollect ELSE cFailedJobsCollect + 1

\* One iteration of the polling loop of _collect_completed_jobs that finds a
\* completed job: it leaves the running jobs, and either releases the jobs it
\* blocks or counts as failed, unscheduling the jobs it blocks under keep_going.
CollectReap(sj, iRet) ==
  /\ pc = "collect"
  /\ sj \in m_dictRunningJobs
  /\ iRet \in poll_results
  /\ iRet # "None"
  /\ returncode' = [returncode EXCEPT ![sj] = iRet]
  /\ m_dictRunningJobs' = m_dictRunningJobs \ {sj}
  /\ cCompletedJobs' = cCompletedJobs + 1
  /\ IF releases(iRet)
     THEN /\ m_cBlocks' = release_blocked(sj)
          /\ released' = released \cup {sj}
          /\ cFailedJobsCollect' = cFailedJobs_after(iRet)
          /\ UNCHANGED <<m_setScheduledJobs, pc, failed, unscheduled>>
     ELSE /\ failed' = failed \cup {sj}
          /\ UNCHANGED <<m_cBlocks, released>>
          /\ IF m_bKeepGoing /\ m_setBlockedJobs[sj] # {}
             THEN \E out \in unschedule_jobs_blocked_by(sj) :
                    /\ m_setScheduledJobs' = m_setScheduledJobs \ out.discarded
                    /\ unscheduled' = unscheduled \cup (out.discarded \cap m_setScheduledJobs)
                    /\ IF out.raised
                       THEN pc' = "raised" /\ UNCHANGED cFailedJobsCollect
                       ELSE pc' = pc /\ cFailedJobsCollect' = cFailedJobs_after(iRet)
             ELSE /\ cFailedJobsCollect' = cFailedJobs_after(iRet)
                  /\ UNCHANGED <<m_setScheduledJobs, unscheduled, pc>>
  /\ UNCHANGED <<flagVars, cJobs, m_setBlockedJobs, iterBlockingJobs,
                 m_dictTargetLastScheduledJobs, collectFrom, cJobsToComplete, runVars,
                 dispatched, spawned>>

\* run_scheduled_jobs, after the loop: "cFailedJobsTotal += the final collection"
FinalTotal_dropped == cFailedJobsTotal

FinalTotal == cFailedJobsTotal + cFailedJobsCollect

\* _collect_completed_jobs: "if cCompletedJobs >= cJobsToComplete: return"
enough_completed_always == TRUE

enough_completed == cCompletedJobs >= cJobsToComplete

\* _collect_completed_jobs returns: a pass over the running jobs found none
\* completed (every iRet was None) and enough jobs were collected.
\* (Otherwise it sleeps and polls again, which changes nothing.)  Its locals
\* are gone and the caller continues at its call site.
CollectReturn ==
  /\ pc = "collect"
  /\ m_dictRunningJobs # {} => "None" \in poll_results
  /\ enough_completed
  /\ collectFrom' = "none"
  /\ cJobsToComplete' = 0
  /\ cCompletedJobs' = 0
  /\ cFailedJobsCollect' = 0
  /\ CASE collectFrom = "top" ->
            /\ cFailedJobs' = cFailedJobsCollect
            /\ pc' = "slot"
            /\ UNCHANGED <<cFailedJobsTotal, result>>
       [] collectFrom = "slot" ->
            /\ cFailedJobs' = cFailedJobs + cFailedJobsCollect
            /\ pc' = "slot"
            /\ UNCHANGED <<cFailedJobsTotal, result>>
       [] collectFrom = "final" ->
            /\ cFailedJobsTotal' = FinalTotal
            /\ result' = FinalTotal
            /\ pc' = "done"
            /\ UNCHANGED cFailedJobs
  /\ UNCHANGED <<flagVars, m_setScheduledJobs, m_dictRunningJobs, jobVars, returncode,
                 histVars>>

\* "self._m_dictTargetLastScheduledJobs.clear()"
cleared_not == m_dictTargetLastScheduledJobs

cleared == [t \in {} |-> 0]

\* run_scheduled_jobs, entry: the memo of the targets' last jobs is cleared
RunStart ==
  /\ pc = "idle"
  /\ pc' = "while"
  /\ m_dictTargetLastScheduledJobs' = cleared
  /\ cFailedJobsTotal' = 0
  /\ UNCHANGED <<flagVars, m_setScheduledJobs, m_dictRunningJobs, cJobs, m_cBlocks,
                 m_setBlockedJobs, iterBlockingJobs, returncode,
                 collectVars, cFailedJobs, result, histVars>>

\* run_scheduled_jobs: "while self._m_setScheduledJobs"; the body starts by
\* collecting completed jobs, the exit goes to the final collection.
WhileTest ==
  /\ pc = "while"
  /\ IF m_setScheduledJobs # {}
     THEN CallCollect("top", 0)
     ELSE CallCollect("final", Cardinality(m_dictRunningJobs))
  /\ UNCHANGED <<flagVars, m_setScheduledJobs, m_dictRunningJobs, jobVars, returncode,
                 runVars, histVars>>

\* run_scheduled_jobs: "while len(running) == max"
NoFreeSlot_off == Cardinality(m_dictRunningJobs) = m_cRunningJobsMax + 1

NoFreeSlot == Cardinality(m_dictRunningJobs) = m_cRunningJobsMax

\* run_scheduled_jobs: "if cFailedJobs > 0 and not self._m_bKeepGoing: break"
StopOnFailure_never == FALSE

StopOnFailure == cFailedJobs > 0 /\ ~m_bKeepGoing

\* run_scheduled_jobs: the wait for a free slot, then the failure total and
\* the break on a failure without keep_going
SlotTest ==
  /\ pc = "slot"
  /\ IF NoFreeSlot
     THEN /\ CallCollect("slot", 1)
          /\ UNCHANGED cFailedJobsTotal
     ELSE /\ cFailedJobsTotal' = cFailedJobsTotal + cFailedJobs
          /\ IF StopOnFailure
             THEN CallCollect("final", Cardinality(m_dictRunningJobs))
             ELSE pc' = "find" /\ UNCHANGED collectVars
  /\ UNCHANGED <<flagVars, m_setScheduledJobs, m_dictRunningJobs, jobVars, returncode,
                 cFailedJobs, result, histVars>>

\* run_scheduled_jobs, "if self._m_bDryRun: proc = object() else: proc =
\* subprocess.Popen(iterArgs)": the jobs with a spawned process after sj started
Popen_always(sj) == spawned \cup {sj}

Popen(sj) == IF m_bDryRun THEN spawned ELSE spawned \cup {sj}

\* run_scheduled_jobs, "self._m_setScheduledJobs.remove(sj)"
remove_scheduled_not(sj) == m_setScheduledJobs

remove_scheduled(sj) == m_setScheduledJobs \ {sj}

\* run_scheduled_jobs: the first pending job found not blocked is started and
\* moved to the running jobs (the set is iterated in no particular order)
Dispatch(sj) ==
  /\ pc = "find"
  /\ sj \in m_setScheduledJobs
  /\ ~blocked(sj)
  /\ m_dictRunningJobs' = m_dictRunningJobs \cup {sj}
  /\ m_setScheduledJobs' = remove_scheduled(sj)
  /\ dispatched' = dispatched \cup {sj}
  /\ spawned' = Popen(sj)
  /\ pc' = "while"
  /\ UNCHANGED <<flagVars, jobVars, returncode, collectVars, runVars,
                 released, failed, unscheduled>>

\* run_scheduled_jobs: every pending job is blocked, the for loop ends
\* without starting one
NoneReady ==
  /\ pc = "find"
  /\ \A sj \in m_setScheduledJobs : blocked(sj)
  /\ pc' = "while"
  /\ UNCHANGED <<flagVars, m_setScheduledJobs, m_dictRunningJobs, jobVars, returncode,
                 collectVars, runVars, histVars>>

RunStep ==
  \/ RunStart
  \/ WhileTest
  \/ SlotTest
  \/ \E sj \in Jobs : Dispatch(sj)
  \/ NoneReady
  \/ \E sj \in Jobs, iRet \in {"zero", "nonzero"} : CollectReap(sj, iRet)
  \/ CollectReturn

MakeNext ==
  \/ \E b \in BOOLEAN : set_dry_run(b)
  \/ \E b \in BOOLEAN : set_ignore_errors(b)
  \/ \E b \in BOOLEAN : set_keep_going(b)
  \/ \E blocking \in SUBSET Jobs :
       ScheduledJob_init(blocking) /\ UNCHANGED m_dictTargetLastScheduledJobs
  \/ RunStep

----------------------------------------------------------------------------
\* Core.validate_dependency_graph and Core._validate_dependency_subtree

\* The scan of the ancestors for a dependency ("for i, dependent_target in
\* enumerate(dependents)"): the position of its first occurrence, 0 if none.
FindBackEdge(deps_, dependency_target) ==
  LET found == {i \in 1..Len(deps_) : deps_[i] = dependency_target}
  IN  IF found = {} THEN 0 ELSE CHOOSE i \in found : \A k \in found : i <= k

\* dependents[i:], the list given to DependencyCycleError
cycle_slice_all(deps_, i) == deps_

cycle_slice(deps_, i) == SubSeq(deps_, i, Len(deps_))

\* "del dependents[len(dependents) - 1]"
restore_dependents_not(deps_) == deps_

restore_dependents(deps_) == SubSeq(deps_, 1, Len(deps_) - 1)

\* "if target not in validated_subtrees" and "if dependency_target not in
\* validated_subtrees"
subtree_validated_never(t) == FALSE

subtree_validated(t) == t \in validated_subtrees

\* A call of _validate_dependency_subtree(t, dependents, validated_subtrees)
\* starts: t becomes the last ancestor and its dependencies are to be iterated.
EnterSubtree(callers, t) ==
  /\ dependents' = Append(dependents, t)
  /\ vframes' = Append(callers, [sub_root_target |-> t, rest |-> vdeps[t]])
  /\ cSubtreeCalls' = [cSubtreeCalls EXCEPT ![t] = @ + 1]

\* validate_dependency_graph: one iteration of "for target in self._targets",
\* in no particular order; a target not validated yet is validated.
ValidateFor(t) ==
  /\ vpc = "for"
  /\ t \in vtodo
  /\ vtodo' = vtodo \ {t}
  /\ IF ~subtree_validated(t)
     THEN /\ EnterSubtree(vframes, t)
          /\ vpc' = "subtree"
     ELSE UNCHANGED <<dependents, vframes, cSubtreeCalls, vpc>>
  /\ UNCHANGED <<vdeps, validated_subtrees, cycle>>

\* validate_dependency_graph returns once every target was enumerated
ValidateReturn ==
  /\ vpc = "for"
  /\ vtodo = {}
  /\ vpc' = "returned"
  /\ UNCHANGED <<vdeps, vtodo, dependents, validated_subtrees, vframes, cSubtreeCalls, cycle>>

\* _validate_dependency_subtree: one iteration of the loop over the
\* dependencies of the innermost call's target, in no particular order.  A
\* dependency found among the ancestors raises DependencyCycleError; one not
\* validated yet is validated by a nested call.
SubtreeDependency(dependency_target) ==
  /\ vpc = "subtree"
  /\ vframes # <<>>
  /\ LET n == Len(vframes)
         f == vframes[n]
         i == FindBackEdge(dependents, dependency_target)
     IN  /\ dependency_target \in f.rest
         /\ IF i # 0
            THEN /\ cycle' = cycle_slice(dependents, i)
                 /\ vpc' = "raised"
                 /\ UNCHANGED <<dependents, vframes, cSubtreeCalls>>
            ELSE /\ UNCHANGED <<cycle, vpc>>
                 /\ IF ~subtree_validated(dependency_target)
                    THEN EnterSubtree([vframes EXCEPT ![n].rest = f.rest \ {dependency_target}],
                                      dependency_target)
                    ELSE /\ vframes' = [vframes EXCEPT ![n].rest = f.rest \ {dependency_target}]
                         /\ UNCHANGED <<dependents, cSubtreeCalls>>
  /\ UNCHANGED <<vdeps, vtodo, validated_subtrees>>

\* "validated_subtrees.add(sub_root_target)"
mark_validated_not(sub_root_target) == validated_subtrees

mark_validated(sub_root_target) == validated_subtrees \cup {sub_root_target}

\* _validate_dependency_subtree returns: the target leaves the ancestors and
\* its subtree is marked as validated.
SubtreeReturn ==
  /\ vpc = "subtree"
  /\ vframes # <<>>
  /\ vframes[Len(vframes)].rest = {}
  /\ dependents' = restore_dependents(dependents)
  /\ validated_subtrees' = mark_validated(vframes[Len(vframes)].sub_root_target)
  /\ vframes' = SubSeq(vframes, 1, Len(vframes) - 1)
  /\ vpc' = IF Len(vframes) = 1 THEN "for" ELSE "subtree"
  /\ UNCHANGED <<vdeps, vtodo, cSubtreeCalls, cycle>>

\* Every target is registered in Core._targets when it is constructed; the
\* dependency relation is whatever the project file declares, here any
\* relation of at most MaxDependencies dependencies.
ValidateInit ==
  /\ vdeps \in [Targets -> SUBSET Targets]
  /\ Cardinality({e \in Targets \X Targets : e[2] \in vdeps[e[1]]}) <= MaxDependencies
  /\ vpc = "for"
  /\ vtodo = Targets
  /\ dependents = <<>>
  /\ validated_subtrees = {}
  /\ vframes = <<>>
  /\ cSubtreeCalls = [t \in Targets |-> 0]
  /\ cycle = <<>>

ValidateNext ==
  \/ \E t \in Targets : ValidateFor(t)
  \/ ValidateReturn
  \/ \E t \in Targets : SubtreeDependency(t)
  \/ SubtreeReturn

\* The validator is not part of a scheduler run
ValidateOff ==
  /\ vdeps = [t \in Targets |-> {}]
  /\ vpc = "off"
  /\ vtodo = {}
  /\ dependents = <<>>
  /\ validated_subtrees = {}
  /\ vframes = <<>>
  /\ cSubtreeCalls = [t \in Targets |-> 0]
  /\ cycle = <<>>

\* The scheduler is not part of a validation
MakeOff ==
  /\ MakeInit
  /\ m_cRunningJobsMax = 1

----------------------------------------------------------------------------
\* Targets (abamake/target.py) and Make.schedule_target_jobs

\* The target classes that implement build()
Kinds == {"ProcessedSourceTarget", "ExecutableTarget", "DynLibTarget",
          "ComparisonUnitTestTarget", "ExecutableUnitTestTarget"}

\* ExecutableTarget and the classes derived from it
LinkKinds == {"ExecutableTarget", "DynLibTarget", "ExecutableUnitTestTarget"}

RangeOf(seq) == {seq[i] : i \in 1..Len(seq)}

\* Target.file_path, ProcessedSourceTarget.source_file_path,
\* ComparisonUnitTestTarget._m_sExpectedOutputFilePath and the name of an
\* external library given to a link target
file_path(t) == <<"file_path", t>>
source_file_path(t) == <<"source_file_path", t>>
m_sExpectedOutputFilePath(t) == <<"expected_output", t>>
external_lib(t) == <<"lib", t>>

\* ComparisonUnitTestTarget.build: the dependency whose output is compared
tgtToCompare(t) == CHOOSE d \in tdeps[t] : tkind[d] = "ProcessedSourceTarget"

\* ExecutableTarget.build: listFilesToCheck
listFilesToCheck_inputs_only(t) ==
  {IF oDep[1] = "target" THEN file_path(oDep[2]) ELSE oDep : oDep \in m_listLinkerInputs[t]}

listFilesToCheck(t) ==
  {file_path(t)} \cup
  {IF oDep[1] = "target" THEN file_path(oDep[2]) ELSE oDep : oDep \in m_listLinkerInputs[t]}

\* The files each build() passes to _is_build_needed
FilesToCheck(t) ==
  CASE tkind[t] = "ProcessedSourceTarget" -> {file_path(t), source_file_path(t)}
    [] tkind[t] \in LinkKinds -> listFilesToCheck(t)
    [] tkind[t] = "ComparisonUnitTestTarget" ->
         {m_sExpectedOutputFilePath(t), file_path(tgtToCompare(t))}

\* Make.file_metadata_changed: the files among the given ones that the
\* metadata store reports as changed
file_metadata_changed(iterFilesToCheck) == iterFilesToCheck \cap changed_files

\* Target._is_build_needed: the changed files, None without files to check
iterChangedFiles(iterFilesToCheck) ==
  IF iterFilesToCheck # {}
  THEN [none |-> FALSE, files |-> file_metadata_changed(iterFilesToCheck)]
  ELSE [none |-> TRUE, files |-> {}]

\* Target._is_build_needed: the tuple it returns
is_build_needed_changed_only(blockingJobs, iterFilesToCheck) ==
  LET changed == iterChangedFiles(iterFilesToCheck)
  IN  IF changed.files # {}
      THEN [bBuildNeeded |-> TRUE, iterChangedFiles |-> changed]
      ELSE [bBuildNeeded |-> FALSE, iterChangedFiles |-> [none |-> TRUE, files |-> {}]]

is_build_needed_unless_blocked(blockingJobs, iterFilesToCheck) ==
  LET changed == iterChangedFiles(iterFilesToCheck)
  IN  IF changed.files # {} \/ m_bForceBuild
      THEN [bBuildNeeded |-> TRUE, iterChangedFiles |-> changed]
      ELSE [bBuildNeeded |-> FALSE, iterChangedFiles |-> [none |-> TRUE, files |-> {}]]

is_build_needed_unless_forced(blockingJobs, iterFilesToCheck) ==
  LET changed == iterChangedFiles(iterFilesToCheck)
  IN  IF blockingJobs # <<>> \/ changed.files # {}
      THEN [bBuildNeeded |-> TRUE, iterChangedFiles |-> changed]
      ELSE [bBuildNeeded |-> FALSE, iterChangedFiles |-> [none |-> TRUE, files |-> {}]]

is_build_needed_all_files(blockingJobs, iterFilesToCheck) ==
  LET changed == iterChangedFiles(iterFilesToCheck)
  IN  IF blockingJobs # <<>> \/ changed.files # {} \/ m_bForceBuild
      THEN [bBuildNeeded |-> TRUE,
            iterChangedFiles |-> [none |-> FALSE, files |-> iterFilesToCheck]]
      ELSE [bBuildNeeded |-> FALSE, iterChangedFiles |-> [none |-> TRUE, files |-> {}]]

is_build_needed(blockingJobs, iterFilesToCheck) ==
  LET changed == iterChangedFiles(iterFilesToCheck)
  IN  IF blockingJobs # <<>> THEN [bBuildNeeded |-> TRUE, iterChangedFiles |-> changed]
      ELSE IF changed.files # {} THEN [bBuildNeeded |-> TRUE, iterChangedFiles |-> changed]
      ELSE IF m_bForceBuild THEN [bBuildNeeded |-> TRUE, iterChangedFiles |-> changed]
      ELSE [bBuildNeeded |-> FALSE, iterChangedFiles |-> [none |-> TRUE, files |-> {}]]

\* "self._m_dictTargetLastScheduledJobs.get(tgt)"; the job 0 is None
LastScheduledJob_forgotten(tgt) == 0

LastScheduledJob(tgt) ==
  IF tgt \in DOMAIN m_dictTargetLastScheduledJobs
  THEN m_dictTargetLastScheduledJobs[tgt]
  ELSE 0

\* The variables of Make other than the memo of the targets' last jobs
makeVarsButMemo == <<flagVars, m_setScheduledJobs, m_dictRunningJobs, cJobs, m_cBlocks,
                     m_setBlockedJobs, iterBlockingJobs, returncode, pc, collectVars,
                     runVars, histVars>>

targetVars == <<tkind, tdeps, m_listLinkerInputs, changed_files, m_bForceBuild,
                cJobsBeforeRun>>

\* "tgt.dependencies or []": the targets added with add_dependency
dependencies_none(tgt) == {}

dependencies(tgt) == tdeps[tgt]

\* A call of schedule_target_jobs(tgt) with the calls in callers active, the
\* innermost of which, if any, is iterating its dependencies: a target with a
\* last job returns it at once and the caller appends it to listBlockingJobs;
\* for any other target the visit of its dependencies starts.
EnterSchedule(callers, tgt) ==
  LET sj == LastScheduledJob(tgt)
      n == Len(callers)
  IN  IF sj = 0
      THEN /\ sframes' = Append(callers, [tgt |-> tgt, rest |-> dependencies(tgt),
                                          listBlockingJobs |-> <<>>, sj |-> 0,
                                          phase |-> "deps"])
           /\ spc' = "schedule"
      ELSE /\ sframes' = IF n = 0 THEN callers
                         ELSE [callers EXCEPT ![n].listBlockingJobs = Append(@, sj)]
           /\ spc' = IF n = 0 THEN "idle" ELSE "schedule"

\* The build request schedules a target: one of the named targets, which
\* the processed sources, created for <source> elements, are not
ScheduleCall(tgt) ==
  /\ spc = "idle"
  /\ pc = "idle"
  /\ tgt \in DOMAIN tkind
  /\ tkind[tgt] # "ProcessedSourceTarget"
  /\ tgt \notin requested
  /\ Cardinality(requested) < MaxRequested
  /\ requested' = requested \cup {tgt}
  /\ EnterSchedule(sframes, tgt)
  /\ UNCHANGED <<makeVars, targetVars, cBuilds, jobsOf, testJobs>>

\* schedule_target_jobs, "for tgtDep in tgt.dependencies or []": the recursive
\* call for one dependency, in no particular order
ScheduleDependency(tgtDep) ==
  /\ spc = "schedule"
  /\ LET n == Len(sframes)
     IN  /\ sframes[n].phase = "deps"
         /\ tgtDep \in sframes[n].rest
         /\ EnterSchedule([sframes EXCEPT ![n].rest = @ \ {tgtDep}], tgtDep)
  /\ UNCHANGED <<makeVars, targetVars, requested, cBuilds, jobsOf, testJobs>>

\* schedule_target_jobs after build() returned sj to the call f, the
\* innermost one: the job is stored, "even if None", the assertion is made for
\* a target without job, and the call returns to its caller, which appends a
\* job returned to its listBlockingJobs.
StoreAndReturn(f, sj) ==
  LET n == Len(sframes)
  IN  /\ m_dictTargetLastScheduledJobs' =
           [t \in DOMAIN m_dictTargetLastScheduledJobs \cup {f.tgt} |->
              IF t = f.tgt THEN sj ELSE m_dictTargetLastScheduledJobs[t]]
      /\ IF sj = 0 /\ f.listBlockingJobs # <<>>
         THEN spc' = "raised" /\ UNCHANGED sframes
         ELSE /\ spc' = IF n = 1 THEN "idle" ELSE "schedule"
              /\ sframes' =
                   IF n > 1 /\ sj # 0
                   THEN [SubSeq(sframes, 1, n - 1) EXCEPT
                           ![n - 1].listBlockingJobs = Append(@, sj)]
                   ELSE SubSeq(sframes, 1, n - 1)

\* schedule_target_jobs, "sj = tgt.build(self, listBlockingJobs)", for
\* ProcessedSourceTarget.build, ExecutableTarget.build and
\* ComparisonUnitTestTarget.build: unless _is_build_needed says no, one job
\* blocked by listBlockingJobs is constructed and returned.  For an
\* ExecutableUnitTestTarget this is the super().build() its build() starts with.
TargetBuild ==
  /\ spc = "schedule"
  /\ LET n == Len(sframes)
         f == sframes[n]
         need == is_build_needed(f.listBlockingJobs, FilesToCheck(f.tgt))
         sj == IF need.bBuildNeeded THEN cJobs + 1 ELSE 0
     IN  /\ f.phase = "deps"
         /\ f.rest = {}
         /\ cBuilds' = [cBuilds EXCEPT ![f.tgt] = @ + 1]
         /\ IF need.bBuildNeeded
            THEN /\ ScheduledJob_init(RangeOf(f.listBlockingJobs))
                 /\ jobsOf' = [jobsOf EXCEPT ![f.tgt] = Append(@, sj)]
            ELSE UNCHANGED <<makeVarsButMemo, jobsOf>>
         /\ IF tkind[f.tgt] = "ExecutableUnitTestTarget"
            THEN /\ sframes' = [sframes EXCEPT ![n].sj = sj, ![n].phase = "test"]
                 /\ UNCHANGED <<spc, m_dictTargetLastScheduledJobs>>
            ELSE StoreAndReturn(f, sj)
  /\ UNCHANGED <<targetVars, requested, testJobs>>

\* ExecutableUnitTestTarget.build: the jobs that block the job running the
\* test, "(jobBuild, )" if super().build() returned a job and None otherwise
tplBlockingJobs_none(jobBuild) == {}

tplBlockingJobs(jobBuild) == IF jobBuild # 0 THEN {jobBuild} ELSE {}

\* ExecutableUnitTestTarget.build after super().build() returned jobBuild
\* (f.sj): the job that runs the test, blocked by the build job if there is
\* one; without one, the assertion that there are no blocking jobs.
TestBuild ==
  /\ spc = "schedule"
  /\ LET n == Len(sframes)
         f == sframes[n]
     IN  /\ f.phase = "test"
         /\ IF f.sj = 0 /\ f.listBlockingJobs # <<>>
            THEN /\ spc' = "raised"
                 /\ UNCHANGED <<makeVars, sframes, jobsOf, testJobs>>
            ELSE /\ ScheduledJob_init(tplBlockingJobs(f.sj))
                 /\ jobsOf' = [jobsOf EXCEPT ![f.tgt] = Append(@, cJobs + 1)]
                 /\ testJobs' = testJobs \cup {cJobs + 1}
                 /\ StoreAndReturn(f, cJobs + 1)
  /\ UNCHANGED <<targetVars, requested, cBuilds>>

\* Make.force_build setter, before anything is scheduled
set_force_build(b) ==
  /\ spc = "idle"
  /\ requested = {}
  /\ m_bForceBuild' = b
  /\ UNCHANGED <<makeVars, tkind, tdeps, m_listLinkerInputs, changed_files,
                 spc, sframes, requested, cBuilds, jobsOf, testJobs, cJobsBeforeRun>>

\* The targets a makefile can declare (parse_makefile_child of each class):
\* a processed source belongs to the one target whose <source> created it and
\* has no dependencies; a link target depends on its sources and on the
\* dynamic libraries it names, which are its linker inputs; a unit test also
\* depends on the targets that name it in <unittest>; a comparison test has
\* the one source whose output it compares.  Nothing depends on a comparison
\* test, and only unit tests depend on a program or on an executable test.
WellFormed(kinds, deps) ==
  LET reg == DOMAIN kinds
      kindsOf(S) == {kinds[d] : d \in S}
  IN  \A t \in reg :
        /\ kinds[t] = "ProcessedSourceTarget" =>
             /\ deps[t] = {}
             /\ Cardinality({u \in reg : t \in deps[u]}) = 1
        /\ kinds[t] \in {"ExecutableTarget", "DynLibTarget"} =>
             kindsOf(deps[t]) \subseteq {"ProcessedSourceTarget", "DynLibTarget"}
        /\ kinds[t] = "ExecutableUnitTestTarget" =>
             kindsOf(deps[t]) \subseteq Kinds \ {"ComparisonUnitTestTarget"}
        /\ kinds[t] = "ComparisonUnitTestTarget" =>
             /\ kindsOf(deps[t]) \subseteq Kinds \ {"ComparisonUnitTestTarget"}
             /\ Cardinality({d \in deps[t] : kinds[d] = "ProcessedSourceTarget"}) = 1

\* The numbers that identify the targets are arbitrary.  Of the numberings
\* of one project in which every target depends on lower numbers only, those
\* are taken in which two consecutive targets, if the second does not depend
\* on the first, come in the order of their class and dependencies.
KindIndex(k) ==
  CASE k = "ProcessedSourceTarget" -> 0
    [] k = "DynLibTarget" -> 1
    [] k = "ExecutableTarget" -> 2
    [] k = "ExecutableUnitTestTarget" -> 3
    [] k = "ComparisonUnitTestTarget" -> 4

RECURSIVE SetCode(_)
SetCode(S) ==
  IF S = {} THEN 0
  ELSE LET d == CHOOSE x \in S : \A y \in S : y <= x
       IN  2 ^ d + SetCode(S \ {d})

TargetCode(kinds, deps, t) == KindIndex(kinds[t]) * 2 ^ (MaxTargets + 1) + SetCode(deps[t])

NumberedInOrder(kinds, deps) ==
  \A t \in DOMAIN kinds :
    (t + 1 \in DOMAIN kinds /\ t \notin deps[t + 1])
      => TargetCode(kinds, deps, t) <= TargetCode(kinds, deps, t + 1)

\* ExecutableTarget.parse_makefile_child: the linker inputs are the sources
\* and the dynamic libraries among the dependencies, and the name of a
\* library that is not built by the makefile (here each link target names one)
LinkerInputs(kinds, deps) ==
  [t \in DOMAIN kinds |->
     IF kinds[t] \in LinkKinds
     THEN {<<"target", d>> : d \in {d \in deps[t] :
                                      kinds[d] \in {"ProcessedSourceTarget", "DynLibTarget"}}}
          \cup {external_lib(t)}
     ELSE {}]

\* A parsed makefile of at most MaxTargets targets whose jobs number at most
\* MaxJobs, a metadata store reporting at most MaxChangedFiles changed files,
\* and nothing scheduled yet; the build request names at most MaxRequested
\* targets.  Targets are numbered so that each depends on
\* targets with a lower number.
ScheduleInit ==
  /\ \E cTargets \in 1..MaxTargets :
       /\ tdeps \in [1..cTargets -> SUBSET (1..(cTargets - 1))]
       /\ \A t \in 1..cTargets : \A d \in tdeps[t] : d < t
       /\ tkind \in [1..cTargets -> Kinds]
  /\ WellFormed(tkind, tdeps)
  /\ NumberedInOrder(tkind, tdeps)
  /\ Cardinality(DOMAIN tkind)
       + Cardinality({t \in DOMAIN tkind : tkind[t] = "ExecutableUnitTestTarget"}) <= MaxJobs
  /\ m_listLinkerInputs = LinkerInputs(tkind, tdeps)
  /\ changed_files \in SUBSET UNION {FilesToCheck(t) : t \in DOMAIN tkind}
  /\ Cardinality(changed_files) <= MaxChangedFiles
  /\ m_bForceBuild = FALSE
  /\ spc = "idle"
  /\ sframes = <<>>
  /\ requested = {}
  /\ cBuilds = [t \in DOMAIN tkind |-> 0]
  /\ jobsOf = [t \in DOMAIN tkind |-> <<>>]
  /\ testJobs = {}
  /\ cJobsBeforeRun = 0

ScheduleNext ==
  \/ \E b \in BOOLEAN : set_force_build(b)
  \/ \E tgt \in Targets : ScheduleCall(tgt)
  \/ \E tgtDep \in Targets : ScheduleDependency(tgtDep)
  \/ TargetBuild
  \/ TestBuild

\* Nothing is scheduled through targets
ScheduleOff ==
  /\ tkind = [t \in {} |-> "ProcessedSourceTarget"]
  /\ tdeps = [t \in {} |-> {}]
  /\ m_listLinkerInputs = [t \in {} |-> {}]
  /\ changed_files = {}
  /\ m_bForceBuild = FALSE
  /\ spc = "off"
  /\ sframes = <<>>
  /\ requested = {}
  /\ cBuilds = [t \in {} |-> 0]
  /\ jobsOf = [t \in {} |-> <<>>]
  /\ testJobs = {}
  /\ cJobsBeforeRun = 0

----------------------------------------------------------------------------
\* parse_makefile_child of the targets (abamake/target.py)

\* The targets declared by a <target> element, which have a name; the
\* processed sources are created for <source> elements and have none
NamedTargets == {t \in DOMAIN tkind : tkind[t] # "ProcessedSourceTarget"}

\* Target.add_dependency of target t: the dependency sets afterwards
add_dependency(t, tgtDep) == [tdeps EXCEPT ![t] = @ \cup {tgtDep}]

\* ExecutableTarget.add_linker_input of target t: the linker inputs afterwards
add_linker_input(inputs, t, oLib) == [inputs EXCEPT ![t] = @ \cup {oLib}]

\* "tgtObj = clsObjTarget(mk, None, sFilePath)": the targets with a new
\* processed source added, which has no dependency and no linker input
NewSourceTarget == Cardinality(DOMAIN tkind) + 1

\* The number of dependencies and of names of external libraries added so
\* far: each element parsed adds one of them or repeats one
cElements ==
  Cardinality({e \in (DOMAIN tdeps) \X (DOMAIN tdeps) : e[2] \in tdeps[e[1]]})
    + Cardinality({t \in DOMAIN tkind : external_lib(t) \in m_listLinkerInputs[t]})

\* ExecutableTarget.parse_makefile_child, <dynlib>: "if oDynLib is not
\* sName", where oDynLib is the named target or else the name itself
dynlib_is_target_never(oDynLib) == FALSE

dynlib_is_target(oDynLib) == oDynLib[1] = "target"

\* ExecutableTarget.parse_makefile_child for <source>, also reached from
\* DynLibTarget and ExecutableUnitTestTarget: a new object target becomes a
\* dependency and a linker input of the target
ParseSource(t) ==
  /\ spc = "parse"
  /\ t \in DOMAIN tkind
  /\ tkind[t] \in LinkKinds
  /\ NewSourceTarget <= MaxTargets
  /\ cElements < MaxElements
  /\ LET tgtObj == NewSourceTarget
         kinds == [u \in DOMAIN tkind \cup {tgtObj} |->
                     IF u = tgtObj THEN "ProcessedSourceTarget" ELSE tkind[u]]
         deps == [u \in DOMAIN kinds |-> IF u = tgtObj THEN {} ELSE tdeps[u]]
         inputs == [u \in DOMAIN kinds |-> IF u = tgtObj THEN {} ELSE m_listLinkerInputs[u]]
     IN  /\ tkind' = kinds
         /\ tdeps' = [deps EXCEPT ![t] = @ \cup {tgtObj}]
         /\ m_listLinkerInputs' = add_linker_input(inputs, t, <<"target", tgtObj>>)
  /\ UNCHANGED spc

\* ComparisonUnitTestTarget.parse_makefile_child for <source>: a second
\* <source> raises; otherwise a new preprocessed target becomes a dependency
ParseComparisonSource(t) ==
  /\ spc = "parse"
  /\ t \in DOMAIN tkind
  /\ tkind[t] = "ComparisonUnitTestTarget"
  /\ IF \E tgt \in tdeps[t] : tkind[tgt] = "ProcessedSourceTarget"
     THEN /\ spc' = "raised"
          /\ UNCHANGED <<tkind, tdeps, m_listLinkerInputs>>
     ELSE /\ NewSourceTarget <= MaxTargets
          /\ cElements < MaxElements
          /\ LET tgtObj == NewSourceTarget
             IN  /\ tkind' = [u \in DOMAIN tkind \cup {tgtObj} |->
                                IF u = tgtObj THEN "ProcessedSourceTarget" ELSE tkind[u]]
                 /\ tdeps' = [u \in DOMAIN tkind \cup {tgtObj} |->
                                IF u = tgtObj THEN {}
                                ELSE IF u = t THEN tdeps[u] \cup {tgtObj} ELSE tdeps[u]]
                 /\ m_listLinkerInputs' = [u \in DOMAIN tkind \cup {tgtObj} |->
                                             IF u = tgtObj THEN {} ELSE m_listLinkerInputs[u]]
          /\ UNCHANGED spc

\* ExecutableTarget.parse_makefile_child for <dynlib name=...>: oDynLib is
\* the target of that name, of whatever class, or the name if the makefile
\* has no such target; a target becomes a dependency, and either becomes a
\* linker input
ParseDynLib(t, oDynLib) ==
  /\ spc = "parse"
  /\ t \in DOMAIN tkind
  /\ tkind[t] \in LinkKinds
  /\ oDynLib \in {<<"target", d>> : d \in NamedTargets} \cup {external_lib(t)}
  /\ cElements < MaxElements
  /\ tdeps' = IF dynlib_is_target(oDynLib) THEN add_dependency(t, oDynLib[2]) ELSE tdeps
  /\ m_listLinkerInputs' = add_linker_input(m_listLinkerInputs, t, oDynLib)
  /\ UNCHANGED <<tkind, spc>>

\* ExecutableTarget.parse_makefile_child for <unittest name=...>, then the
\* addition of DynLibTarget.parse_makefile_child: the named target, 0 if
\* there is none, which raises, gets the target as a dependency, and as a
\* linker input if the target is a dynamic library and the named one links
ParseUnitTest(t, tgtUnitTest) ==
  /\ spc = "parse"
  /\ t \in DOMAIN tkind
  /\ tkind[t] \in LinkKinds
  /\ tgtUnitTest \in NamedTargets \cup {0}
  /\ cElements < MaxElements
  /\ IF tgtUnitTest = 0
     THEN /\ spc' = "raised"
          /\ UNCHANGED <<tdeps, m_listLinkerInputs>>
     ELSE /\ tdeps' = add_dependency(tgtUnitTest, t)
          /\ m_listLinkerInputs' =
               IF tkind[t] = "DynLibTarget" /\ tkind[tgtUnitTest] \in LinkKinds
               THEN add_linker_input(m_listLinkerInputs, tgtUnitTest, <<"target", t>>)
               ELSE m_listLinkerInputs
          /\ UNCHANGED spc
  /\ UNCHANGED tkind

\* Make.parse_doc after its first scan: the <target> elements were
\* instantiated, none has a dependency or a linker input yet.  The targets
\* are numbered in the order of their classes.
MakefileInit ==
  /\ \E cTargets \in 1..MaxTargets :
       tkind \in [1..cTargets -> Kinds \ {"ProcessedSourceTarget"}]
  /\ \A t \in DOMAIN tkind :
       t + 1 \in DOMAIN tkind => KindIndex(tkind[t]) <= KindIndex(tkind[t + 1])
  /\ tdeps = [t \in DOMAIN tkind |-> {}]
  /\ m_listLinkerInputs = [t \in DOMAIN tkind |-> {}]
  /\ changed_files = {}
  /\ m_bForceBuild = FALSE
  /\ spc = "parse"
  /\ sframes = <<>>
  /\ requested = {}
  /\ cBuilds = [t \in {} |-> 0]
  /\ jobsOf = [t \in {} |-> <<>>]
  /\ testJobs = {}
  /\ cJobsBeforeRun = 0

\* Make.parse_doc, second scan: the child elements of the targets
MakefileNext ==
  /\ \/ \E t \in Targets : ParseSource(t)
     \/ \E t \in Targets : ParseComparisonSource(t)
     \/ \E t, d \in Targets : ParseDynLib(t, <<"target", d>>)
     \/ \E t \in Targets : ParseDynLib(t, external_lib(t))
     \/ \E t \in Targets, tgtUnitTest \in 0..MaxTargets : ParseUnitTest(t, tgtUnitTest)
  /\ UNCHANGED <<changed_files, m_bForceBuild, sframes, requested, cBuilds, jobsOf,
                 testJobs, cJobsBeforeRun>>

----------------------------------------------------------------------------
\* Core (comk/core.py): the registries of targets and external dependencies

\* The file paths, target names and repos used as keys, and the objects
\* (targets, dependencies) registered
Keys == 1..MaxKeys
Objects == 1..MaxObjects

\* "if file_path in self._file_targets", and the same test of the other
\* registries
registered_never(registry, key) == FALSE

registered(registry, key) == key \in DOMAIN registry

\* "self._file_targets[file_path] = target"
store(registry, key, object) ==
  [k \in DOMAIN registry \cup {key} |-> IF k = key THEN object ELSE registry[k]]

\* Core.add_file_target
add_file_target(target, path) ==
  /\ IF registered(file_targets, path)
     THEN /\ registry_raised' = "KeyError"
          /\ UNCHANGED file_targets
     ELSE /\ registry_raised' = "none"
          /\ file_targets' = store(file_targets, path, target)
  /\ UNCHANGED <<named_targets, external_dependencies, external_dependencies_incl_transitive>>

\* Core.add_named_target
add_named_target(target, name) ==
  /\ IF registered(named_targets, name)
     THEN /\ registry_raised' = "KeyError"
          /\ UNCHANGED named_targets
     ELSE /\ registry_raised' = "none"
          /\ named_targets' = store(named_targets, name, target)
  /\ UNCHANGED <<file_targets, external_dependencies, external_dependencies_incl_transitive>>

\* Core.add_external_dependency
add_external_dependency(dep, repo) ==
  /\ IF registered(external_dependencies, repo)
     THEN /\ registry_raised' = "KeyError"
          /\ UNCHANGED <<external_dependencies, external_dependencies_incl_transitive>>
     ELSE /\ registry_raised' = "none"
          /\ external_dependencies' = store(external_dependencies, repo, dep)
          /\ external_dependencies_incl_transitive' =
               external_dependencies_incl_transitive \cup {dep}
  /\ UNCHANGED <<file_targets, named_targets>>

\* Core.__init__: the registries are empty
RegistryInit ==
  /\ file_targets = [k \in {} |-> 0]
  /\ named_targets = [k \in {} |-> 0]
  /\ external_dependencies = [k \in {} |-> 0]
  /\ external_dependencies_incl_transitive = {}
  /\ registry_raised = "none"

\* The number of entries of the three registries
Entries ==
  Cardinality(DOMAIN file_targets) + Cardinality(DOMAIN named_targets)
    + Cardinality(DOMAIN external_dependencies)

\* Calls of the three methods in any order, with any object and key, while
\* the registries hold fewer than MaxEntries entries; a call with a
\* registered key adds none and is always possible.
RegistryNext ==
  \/ \E target \in Objects, path \in Keys :
       /\ Entries < MaxEntries \/ registered(file_targets, path)
       /\ add_file_target(target, path)
  \/ \E target \in Objects, name \in Keys :
       /\ Entries < MaxEntries \/ registered(named_targets, name)
       /\ add_named_target(target, name)
  \/ \E dep \in Objects, repo \in Keys :
       /\ Entries < MaxEntries \/ registered(external_dependencies, repo)
       /\ add_external_dependency(dep, repo)

\* No registry is used
RegistryOff ==
  /\ file_targets = [k \in {} |-> 0]
  /\ named_targets = [k \in {} |-> 0]
  /\ external_dependencies = [k \in {} |-> 0]
  /\ external_dependencies_incl_transitive = {}
  /\ registry_raised = "off"

----------------------------------------------------------------------------
\* Core.parse (comk/core.py)

\* Core.__init__: no metadata store, nothing parsed
ParseInit ==
  /\ ppc = "parse_file"
  /\ metadata = "None"
  /\ perror = "none"
  /\ targets_validated = {}

\* The project file declares any dependency relation of at most
\* MaxDependencies dependencies; validate_dependency_graph is yet to be called
ValidatePending ==
  /\ vdeps \in [Targets -> SUBSET Targets]
  /\ Cardinality({e \in Targets \X Targets : e[2] \in vdeps[e[1]]}) <= MaxDependencies
  /\ vpc = "pending"
  /\ vtodo = Targets
  /\ dependents = <<>>
  /\ validated_subtrees = {}
  /\ vframes = <<>>
  /\ cSubtreeCalls = [t \in Targets |-> 0]
  /\ cycle = <<>>

\* "project = parser.parse_file(file_path)" and the test of the type of the
\* top level object: either raises a parsing error
ParseFile ==
  /\ ppc = "parse_file"
  /\ \E ok \in BOOLEAN :
       IF ok THEN ppc' = "validate" /\ UNCHANGED perror
       ELSE ppc' = "raised" /\ perror' = "ParsingError"
  /\ UNCHANGED <<metadata, targets_validated, validateVars>>

\* "for target in self._targets: target.validate()": validate() returns for
\* the targets of validatedTargets and, unless these are all the targets,
\* raises for the next one; after the loop validate_dependency_graph is called
ValidateTargets ==
  /\ ppc = "validate"
  /\ \E validatedTargets \in SUBSET Targets :
       /\ targets_validated' = validatedTargets
       /\ IF validatedTargets = Targets
          THEN /\ ppc' = "graph"
               /\ vpc' = "for"
               /\ UNCHANGED perror
          ELSE /\ ppc' = "raised"
               /\ perror' = "ValidationError"
               /\ UNCHANGED vpc
  /\ UNCHANGED <<metadata, vdeps, vtodo, dependents, validated_subtrees, vframes,
                 cSubtreeCalls, cycle>>

\* "self.validate_dependency_graph()", step by step
ValidateGraph ==
  /\ ppc = "graph"
  /\ ValidateNext
  /\ UNCHANGED <<ppc, metadata, perror, targets_validated>>

\* DependencyCycleError leaves parse
ParseRaise ==
  /\ ppc = "graph"
  /\ vpc = "raised"
  /\ ppc' = "raised"
  /\ perror' = "DependencyCycleError"
  /\ UNCHANGED <<metadata, targets_validated, validateVars>>

\* The statements after "self.validate_dependency_graph()" are reached when
\* the call returned
graph_validated_or_raised == vpc \in {"returned", "raised"}

graph_validated == vpc = "returned"

\* "self._metadata = ...": the store parsed from the metadata file, or a new
\* one if the file cannot be read
LoadMetadata ==
  /\ ppc = "graph"
  /\ graph_validated
  /\ \E loaded \in {"parsed", "new"} : metadata' = loaded
  /\ ppc' = "returned"
  /\ UNCHANGED <<perror, targets_validated, validateVars>>

ParseNext ==
  \/ ParseFile
  \/ ValidateTargets
  \/ ValidateGraph
  \/ ParseRaise
  \/ LoadMetadata

\* parse is not called
ParseOff ==
  /\ ppc = "off"
  /\ metadata = "None"
  /\ perror = "none"
  /\ targets_validated = {}

\* parse has returned
ParseReturned ==
  /\ ppc = "returned"
  /\ metadata \in {"parsed", "new"}
  /\ perror = "none"
  /\ targets_validated = Targets

----------------------------------------------------------------------------
\* Core.build_targets (comk/core.py)

Min(S) == CHOOSE x \in S : \A y \in S : x <= y

\* Core.__init__: not a dry run, a new job runner
BuildFresh ==
  /\ dry_run = FALSE
  /\ deps_todo = {}
  /\ deps_failed = FALSE
  /\ targets_todo = 0
  /\ queued = 0
  /\ failed_jobs = 0
  /\ bexc = "none"
  /\ metadata_writes = 0
  /\ build_result = "none"

\* A parsed project with any external dependencies, before build_targets
BuildInit ==
  /\ \E repos \in SUBSET Keys : external_dependencies = [repo \in repos |-> 1]
  /\ external_dependencies_incl_transitive = {external_dependencies[repo] :
                                                repo \in DOMAIN external_dependencies}
  /\ file_targets = [k \in {} |-> 0]
  /\ named_targets = [k \in {} |-> 0]
  /\ registry_raised = "none"
  /\ bpc = "idle"
  /\ BuildFresh

\* Core.dry_run setter, between calls
Core_set_dry_run(b) ==
  /\ bpc = "idle"
  /\ dry_run' = b
  /\ UNCHANGED <<bpc, deps_todo, deps_failed, targets_todo, queued, failed_jobs, bexc,
                 metadata_writes, build_result>>

\* build_targets is called with cTargets targets and enters the try block
build_targets(cTargets) ==
  /\ bpc = "idle"
  /\ ppc = "returned"
  /\ bpc' = "try"
  /\ deps_todo' = DOMAIN external_dependencies
  /\ targets_todo' = cTargets
  /\ UNCHANGED <<dry_run, deps_failed, queued, failed_jobs, bexc, metadata_writes,
                 build_result>>

\* "dep.dep_core.build_targets(dep.dep_core.named_targets)" for the next
\* external dependency: the call returns True or False, which is not looked
\* at, or raises
BuildDependency ==
  /\ bpc = "try"
  /\ deps_todo # {}
  /\ \E outcome \in {"True", "False", "raise"} :
       IF outcome = "raise"
       THEN /\ bexc' = "dep"
            /\ bpc' = "finally"
            /\ UNCHANGED <<deps_todo, deps_failed>>
       ELSE /\ deps_todo' = deps_todo \ {Min(deps_todo)}
            /\ deps_failed' = (deps_failed \/ outcome = "False")
            /\ UNCHANGED <<bexc, bpc>>
  /\ UNCHANGED <<dry_run, targets_todo, queued, failed_jobs, metadata_writes, build_result>>

\* "for dep in self._external_dependencies.values()" has ended: the
\* statements after the loop are reached
dependencies_built_or_not == TRUE

dependencies_built == deps_todo = {}

\* "target.start_build()" for the next target: it queues a job, or none for a
\* target that is up to date, or raises
StartBuild ==
  /\ bpc = "try"
  /\ dependencies_built
  /\ targets_todo > 0
  /\ \E outcome \in {"job", "no job", "raise"} :
       IF outcome = "raise"
       THEN /\ bexc' = "start_build"
            /\ bpc' = "finally"
            /\ UNCHANGED <<targets_todo, queued>>
       ELSE /\ targets_todo' = targets_todo - 1
            /\ queued' = queued + (IF outcome = "job" THEN 1 ELSE 0)
            /\ UNCHANGED <<bexc, bpc>>
  /\ UNCHANGED <<dry_run, deps_todo, deps_failed, failed_jobs, metadata_writes, build_result>>

\* "self._job_runner.run()" is called
RunnerRun ==
  /\ bpc = "try"
  /\ dependencies_built
  /\ targets_todo = 0
  /\ bpc' = "run"
  /\ UNCHANGED <<dry_run, deps_todo, deps_failed, targets_todo, queued, failed_jobs, bexc,
                 metadata_writes, build_result>>

\* The job runner returns or raises, with any number of the queued jobs failed
RunnerEnd ==
  /\ bpc = "run"
  /\ \E cFailed \in 0..queued : failed_jobs' = cFailed
  /\ \E raises \in BOOLEAN : bexc' = IF raises THEN "runner" ELSE "none"
  /\ bpc' = "finally"
  /\ UNCHANGED <<dry_run, deps_todo, deps_failed, targets_todo, queued, metadata_writes,
                 build_result>>

\* "if not self._dry_run:" of the finally block
metadata_written_on_success == ~dry_run /\ bexc = "none"

metadata_written == ~dry_run

\* The finally block, then "return self.job_runner.failed_jobs == 0" or the
\* exception that propagates
Finally ==
  /\ bpc = "finally"
  /\ metadata_writes' = metadata_writes + (IF metadata_written THEN 1 ELSE 0)
  /\ IF bexc = "none"
     THEN /\ bpc' = "returned"
          /\ build_result' = IF failed_jobs = 0 THEN "True" ELSE "False"
     ELSE /\ bpc' = "raised"
          /\ UNCHANGED build_result
  /\ UNCHANGED <<dry_run, deps_todo, deps_failed, targets_todo, queued, failed_jobs, bexc>>

BuildNext ==
  \/ \E b \in BOOLEAN : Core_set_dry_run(b)
  \/ \E cTargets \in 0..MaxTargets : build_targets(cTargets)
  \/ BuildDependency
  \/ StartBuild
  \/ RunnerRun
  \/ RunnerEnd
  \/ Finally

\* build_targets is not called
BuildOff ==
  /\ bpc = "off"
  /\ BuildFresh

CoreOff == RegistryOff /\ ParseOff /\ BuildOff

----------------------------------------------------------------------------
\* YamlParser (abamake/yaml.py)

\* A line is the sequence of its characters.  The texts "%YAML 1.2" and
\* "---" and the text "x", which stands for any other text without blank or
\* "#", are taken as one character each.
NoneLine == <<"None">>

\* The lines a source is made of, without their terminators: empty, blank,
\* comments, the directive and the document start as such, indented, followed
\* by a comment or by a blank, and other text
LineChoices ==
  {<<>>, <<" ">>, <<"#", "x">>, <<" ", "#">>,
   <<"%YAML 1.2">>, <<" ", "%YAML 1.2">>, <<"%YAML 1.2", " ", "#", "x">>,
   <<"%YAML 1.2", " ">>,
   <<"---">>, <<" ", "---">>, <<"x">>}

\* The lines of a document body: a scalar, a map key without and with a
\* value, a sequence item without and with a value, an indented scalar, a
\* line that starts with a colon, a blank line and an indented map entry
BodyChoices ==
  {<<"x">>, <<"x", ":">>, <<"x", ":", " ", "x">>, <<"-", " ">>, <<"-", " ", "x">>,
   <<" ", "x">>, <<":", "x">>, <<" ">>, <<" ", "x", ":", " ", "x">>}

\* The sources of at most MaxLines lines, and those that have at most
\* MaxLines lines of body after the directive and the document start
Sources ==
  UNION {[1..n -> LineChoices] : n \in 0..MaxLines}
    \cup {<<<<"%YAML 1.2">>, <<"---">>>> \o body :
            body \in UNION {[1..n -> BodyChoices] : n \in 0..MaxLines}}

\* "iter(s.splitlines(True))": every line keeps its terminator; the last
\* line has one if the source ends with one
splitlines(source, bEndsWithTerminator) ==
  [i \in 1..Len(source) |->
     IF i < Len(source) \/ bEndsWithTerminator THEN Append(source[i], "\n") ELSE source[i]]

\* "sLine.rstrip('\n\r')"
RECURSIVE rstrip(_)
rstrip(sLine) ==
  IF sLine # <<>> /\ sLine[Len(sLine)] \in {"\n", "\r"}
  THEN rstrip(SubSeq(sLine, 1, Len(sLine) - 1))
  ELSE sLine

\* "_smc_reComment.sub('', sLine)" with the pattern [\t ]*#.*$: the line up
\* to the blanks that precede its first "#"
reComment_sub(sLine) ==
  LET hashes == {i \in 1..Len(sLine) : sLine[i] = "#"}
  IN  IF hashes = {} THEN sLine
      ELSE LET first == CHOOSE i \in hashes : \A k \in hashes : i <= k
               starts == {k \in 1..first : \A m \in k..(first - 1) : sLine[m] \in {" ", "\t"}}
               start == CHOOSE k \in starts : \A m \in starts : k <= m
           IN  SubSeq(sLine, 1, start - 1)

\* "len(self._smc_reIndent.match(sLine).group())" with the pattern ^[\t ]*
reIndent_len(sLine) ==
  LET blanks == {n \in 0..Len(sLine) : \A m \in 1..n : sLine[m] \in {" ", "\t"}}
  IN  CHOOSE n \in blanks : \A m \in blanks : m <= n

\* YamlParser.next_line on the lines left in the iterator: the lines left
\* after the call, the line made available and its indentation.  A line of
\* which nothing is left without terminator and comment is skipped; at the
\* end of the source the line is None.
RECURSIVE next_line(_)
next_line(iterLines) ==
  IF iterLines = <<>>
  THEN [iterLines |-> <<>>, sLine |-> NoneLine, iLineIndent |-> 0]
  ELSE LET sLine == reComment_sub(rstrip(Head(iterLines)))
       IN  IF sLine = <<>>
           THEN next_line(Tail(iterLines))
           ELSE [iterLines |-> Tail(iterLines),
                 sLine |-> SubSeq(sLine, reIndent_len(sLine) + 1, Len(sLine)),
                 iLineIndent |-> reIndent_len(sLine)]

\* The call of next_line as a step; it returns True unless the line is None
NextLine ==
  LET ret == next_line(m_iterLines)
  IN  /\ m_iterLines' = ret.iterLines
      /\ m_sLine' = ret.sLine
      /\ m_iLineIndent' = ret.iLineIndent

\* find_and_consume_doc_start: "if self._m_sLine != '%YAML 1.2'"
is_directive(sLine) == sLine = <<"%YAML 1.2">>

\* find_and_consume_doc_start: "if self._m_sLine != '---'"
is_doc_start_or_any(sLine) == TRUE

is_doc_start(sLine) == sLine = <<"---">>

\* parse_string: a YamlParser on the lines of the source, then yp()
YamlInit ==
  /\ ySource \in Sources
  /\ \E bEndsWithTerminator \in BOOLEAN :
       /\ Len(ySource) = 0 => ~bEndsWithTerminator
       /\ m_iterLines = splitlines(ySource, bEndsWithTerminator)
  /\ m_sLine = NoneLine
  /\ m_iLineIndent = 0
  /\ m_iCurrIndent = 0
  /\ ypc = "directive"
  /\ yerror = "none"
  /\ yresult = "none"

\* find_and_consume_doc_start: the first line read must be the directive
ConsumeDirective ==
  /\ ypc = "directive"
  /\ NextLine
  /\ IF is_directive(m_sLine')
     THEN ypc' = "doc_start" /\ UNCHANGED yerror
     ELSE ypc' = "raised" /\ yerror' = "expected %YAML directive"
  /\ UNCHANGED <<ySource, m_iCurrIndent, yresult>>

\* find_and_consume_doc_start: the next line must exist and be "---"
ConsumeDocStart ==
  /\ ypc = "doc_start"
  /\ NextLine
  /\ IF m_sLine' = NoneLine
     THEN ypc' = "raised" /\ yerror' = "missing document start"
     ELSE IF is_doc_start(m_sLine')
          THEN ypc' = "body" /\ UNCHANGED yerror
          ELSE ypc' = "raised" /\ yerror' = "unexpected directive"
  /\ UNCHANGED <<ySource, m_iCurrIndent, yresult>>

\* YamlParser.__call__ after find_and_consume_doc_start: None is returned
\* for a document without a line, otherwise consume_object is called
CallBody ==
  /\ ypc = "body"
  /\ NextLine
  /\ IF m_sLine' = NoneLine
     THEN ypc' = "returned" /\ yresult' = "None"
     ELSE ypc' = "consume_object" /\ UNCHANGED yresult
  /\ UNCHANGED <<ySource, m_iCurrIndent, yerror>>

\* The parser as the consume_ methods see and change it: the lines not read
\* yet, the line, its indentation and the current indentation; exc is the
\* exception raised, if any, and type the class of the object returned
Parser(iterLines, sLine, iLineIndent, iCurrIndent) ==
  [iterLines |-> iterLines, sLine |-> sLine, iLineIndent |-> iLineIndent,
   iCurrIndent |-> iCurrIndent, exc |-> "none", type |-> "none"]

\* self.next_line() on a parser
ParserNextLine(p) ==
  LET ret == next_line(p.iterLines)
  IN  [p EXCEPT !.iterLines = ret.iterLines, !.sLine = ret.sLine,
                !.iLineIndent = ret.iLineIndent]

\* "self._m_sLine.startswith('- ')"
startswith_dash(sLine) == Len(sLine) >= 2 /\ sLine[1] = "-" /\ sLine[2] = " "

\* "':' in self._m_sLine"
has_colon(sLine) == \E i \in 1..Len(sLine) : sLine[i] = ":"

\* "_smc_reMapKey.match(sLine)" with the pattern ^(?P<key>[^:]+) *: *: the
\* length of the match, one or more characters other than a colon, a colon
\* and the blanks that follow it; 0 if there is no match
reMapKey_len(sLine) ==
  LET colons == {i \in 1..Len(sLine) : sLine[i] = ":"}
  IN  IF colons = {} THEN 0
      ELSE LET first == CHOOSE i \in colons : \A k \in colons : i <= k
               ends == {n \in first..Len(sLine) : \A m \in (first + 1)..n : sLine[m] = " "}
           IN  IF first = 1 THEN 0
               ELSE CHOOSE n \in ends : \A m \in ends : m <= n

\* "self._m_sLine[2:].lstrip(' ')"
strip_dash(sLine) ==
  LET rest == SubSeq(sLine, 3, Len(sLine))
      blanks == {n \in 0..Len(rest) : \A m \in 1..n : rest[m] = " "}
      n == CHOOSE n \in blanks : \A m \in blanks : m <= n
  IN  SubSeq(rest, n + 1, Len(rest))

\* consume_object, "if len(self._m_sLine) == 0: self.next_line()": the
\* method that follows is then chosen by calling startswith on the line,
\* which is None at the end of the source
line_is_none(p) == p.sLine = NoneLine

RECURSIVE consume_scalar(_)
RECURSIVE consume_object(_)
RECURSIVE consume_map_loop(_, _)
RECURSIVE consume_sequence_loop(_, _)

\* YamlParser.consume_scalar: the lines that follow with an indentation
\* above the current one continue the scalar; it returns a str
consume_scalar(p) ==
  LET q == ParserNextLine(p)
  IN  IF q.sLine # NoneLine /\ q.iLineIndent > q.iCurrIndent
      THEN consume_scalar(q)
      ELSE [q EXCEPT !.type = "str"]

\* YamlParser.consume_map, one iteration of its loop and those that follow,
\* iCurrIndent being the indentation saved on entry; it returns a dict
consume_map_loop(p, iCurrIndent) ==
  LET n == reMapKey_len(p.sLine)
  IN  IF n = 0
      THEN [p EXCEPT !.exc = "map key expected"]
      ELSE LET q == consume_object([p EXCEPT !.sLine = SubSeq(p.sLine, n + 1, Len(p.sLine))])
           IN  IF q.exc # "none" THEN q
               ELSE IF q.sLine = NoneLine \/ q.iLineIndent < iCurrIndent
               THEN [q EXCEPT !.iCurrIndent = iCurrIndent, !.type = "dict"]
               ELSE consume_map_loop(q, iCurrIndent)

\* YamlParser.consume_map
consume_map(p) == consume_map_loop([p EXCEPT !.iCurrIndent = p.iLineIndent], p.iCurrIndent)

\* YamlParser.consume_sequence, one iteration of its loop and those that
\* follow; it returns a list
consume_sequence_loop(p, iCurrIndent) ==
  LET q == consume_object([p EXCEPT !.sLine = strip_dash(p.sLine)])
  IN  IF q.exc # "none" THEN q
      ELSE IF q.sLine = NoneLine \/ q.iLineIndent < iCurrIndent \/ ~startswith_dash(q.sLine)
      THEN [q EXCEPT !.iCurrIndent = iCurrIndent, !.type = "list"]
      ELSE consume_sequence_loop(q, iCurrIndent)

\* YamlParser.consume_sequence
consume_sequence(p) ==
  consume_sequence_loop([p EXCEPT !.iCurrIndent = p.iLineIndent + 2], p.iCurrIndent)

\* YamlParser.consume_object: a line of which nothing is left is replaced
\* by the next one; startswith called on None raises AttributeError
consume_object(p) ==
  LET q == IF p.sLine = <<>> THEN ParserNextLine(p) ELSE p
  IN  IF line_is_none(q) THEN [q EXCEPT !.exc = "AttributeError"]
      ELSE IF startswith_dash(q.sLine) THEN consume_sequence(q)
      ELSE IF has_colon(q.sLine) THEN consume_map(q)
      ELSE consume_scalar(q)

\* YamlParser.__call__, "return self.consume_object()": parse_string returns
\* the object, or the exception of consume_object propagates
ConsumeObject ==
  /\ ypc = "consume_object"
  /\ LET p == consume_object(Parser(m_iterLines, m_sLine, m_iLineIndent, m_iCurrIndent))
     IN  /\ m_iterLines' = p.iterLines
         /\ m_sLine' = p.sLine
         /\ m_iLineIndent' = p.iLineIndent
         /\ m_iCurrIndent' = p.iCurrIndent
         /\ IF p.exc = "none"
            THEN ypc' = "returned" /\ yresult' = p.type /\ UNCHANGED yerror
            ELSE ypc' = "raised" /\ yerror' = p.exc /\ UNCHANGED yresult
  /\ UNCHANGED ySource

YamlNext ==
  \/ ConsumeDirective
  \/ ConsumeDocStart
  \/ CallBody
  \/ ConsumeObject

\* No source is parsed
YamlOff ==
  /\ ySource = <<>>
  /\ m_iterLines = <<>>
  /\ m_sLine = NoneLine
  /\ m_iLineIndent = 0
  /\ m_iCurrIndent = 0
  /\ ypc = "off"
  /\ yerror = "none"
  /\ yresult = "none"

----------------------------------------------------------------------------
\* Specifications

Init == MakeInit /\ ValidateOff /\ ScheduleOff /\ CoreOff /\ YamlOff

Next == MakeNext /\ UNCHANGED <<validateVars, scheduleVars, coreVars, yamlVars>>

Spec == Init /\ [][Next]_vars

\* The control thread keeps taking steps, and the spawned processes exit:
\* running jobs polled again and again are eventually found completed
SpecFair ==
  /\ Spec
  /\ WF_vars(RunStep /\ UNCHANGED <<validateVars, scheduleVars, coreVars, yamlVars>>)
  /\ SF_vars((\E sj \in Jobs, iRet \in {"zero", "nonzero"} : CollectReap(sj, iRet))
              /\ UNCHANGED <<validateVars, scheduleVars, coreVars, yamlVars>>)

InitValidate == MakeOff /\ ValidateInit /\ ScheduleOff /\ CoreOff /\ YamlOff

NextValidate == ValidateNext /\ UNCHANGED <<makeVars, scheduleVars, coreVars, yamlVars>>

SpecValidate == InitValidate /\ [][NextValidate]_vars

InitSchedule == MakeOff /\ ValidateOff /\ ScheduleInit /\ CoreOff /\ YamlOff

NextSchedule == ScheduleNext /\ UNCHANGED <<validateVars, coreVars, yamlVars>>

SpecSchedule == InitSchedule /\ [][NextSchedule]_vars

\* A step of run_scheduled_jobs, called when no schedule_target_jobs call is
\* active
RequestRun ==
  /\ spc = "idle"
  /\ RunStep
  /\ cJobsBeforeRun' = IF pc = "idle" THEN cJobs ELSE cJobsBeforeRun
  /\ UNCHANGED <<tkind, tdeps, m_listLinkerInputs, changed_files, m_bForceBuild,
                 spc, sframes, requested, cBuilds, jobsOf, testJobs>>

\* run_scheduled_jobs has returned and another build request starts, while
\* jobs can still be constructed
NextRequest ==
  /\ pc = "done"
  /\ cJobs < MaxJobs
  /\ pc' = "idle"
  /\ requested' = {}
  /\ cBuilds' = [t \in DOMAIN tkind |-> 0]
  /\ UNCHANGED <<flagVars, m_setScheduledJobs, m_dictRunningJobs, jobVars, returncode,
                 collectVars, runVars, histVars>>
  /\ UNCHANGED <<targetVars, spc, sframes, jobsOf, testJobs>>

NextRequests == (ScheduleNext \/ RequestRun \/ NextRequest) /\ UNCHANGED <<validateVars, coreVars, yamlVars>>

\* The projects whose targets can all be scheduled twice with MaxJobs jobs
InitRequests ==
  /\ InitSchedule
  /\ 2 * (Cardinality(DOMAIN tkind)
            + Cardinality({t \in DOMAIN tkind : tkind[t] = "ExecutableUnitTestTarget"}))
       <= MaxJobs + 1

SpecRequests == InitRequests /\ [][NextRequests]_vars

InitRegistry == MakeOff /\ ValidateOff /\ ScheduleOff /\ RegistryInit /\ ParseOff /\ BuildOff /\ YamlOff

NextRegistry ==
  RegistryNext
    /\ UNCHANGED <<makeVars, validateVars, scheduleVars, parseVars, buildVars, yamlVars>>

SpecRegistry == InitRegistry /\ [][NextRegistry]_vars

InitParse ==
  /\ MakeOff /\ ValidatePending /\ ScheduleOff /\ RegistryOff /\ YamlOff
  /\ ParseInit /\ bpc = "idle" /\ BuildFresh

NextParse ==
  ParseNext /\ UNCHANGED <<makeVars, scheduleVars, registryVars, buildVars, yamlVars>>

SpecParse == InitParse /\ [][NextParse]_vars

InitBuild ==
  MakeOff /\ ValidateOff /\ ScheduleOff /\ ParseReturned /\ BuildInit /\ YamlOff

NextBuild ==
  BuildNext
    /\ UNCHANGED <<makeVars, validateVars, scheduleVars, registryVars, parseVars, yamlVars>>

SpecBuild == InitBuild /\ [][NextBuild]_vars

InitYaml == MakeOff /\ ValidateOff /\ ScheduleOff /\ CoreOff /\ YamlInit

NextYaml == YamlNext /\ UNCHANGED <<makeVars, validateVars, scheduleVars, coreVars>>

SpecYaml == InitYaml /\ [][NextYaml]_vars

InitMakefile == MakeOff /\ ValidateOff /\ MakefileInit /\ CoreOff /\ YamlOff

NextMakefile == MakefileNext /\ UNCHANGED <<makeVars, validateVars, coreVars, yamlVars>>

SpecMakefile == InitMakefile /\ [][NextMakefile]_vars

----------------------------------------------------------------------------
\* Properties of Make.run_scheduled_jobs

\* Jobs whose process exited with a non-zero status and has been collected
ExitedNonZero == {sj \in dispatched \ m_dictRunningJobs : returncode[sj] = "nonzero"}

\* Jobs constructed as blocked on d, directly
BlockedOn(d) == {sj \in 1..cJobs : d \in iterBlockingJobs[sj]}

RECURSIVE BlockedWithin(_, _)
BlockedWithin(S, n) ==
  IF n = 0 THEN S
  ELSE BlockedWithin(S \cup UNION {BlockedOn(d) : d \in S}, n - 1)

\* Jobs blocked on d directly or through other jobs
TransitivelyBlockedOn(d) == BlockedWithin(BlockedOn(d), MaxJobs)

\* The run has ended, by returning or by raising
RunEnded == pc \in {"done", "raised"}

\* C1: a job is never dispatched before every job it was constructed as
\* blocked on has completed and released it; unless errors are ignored each
\* of these jobs completed with exit status 0.
C1_DispatchedAfterRelease ==
  \A sj \in dispatched :
    /\ iterBlockingJobs[sj] \subseteq released
    /\ iterBlockingJobs[sj] \cap m_dictRunningJobs = {}
    /\ ~m_bIgnoreErrors => \A d \in iterBlockingJobs[sj] : returncode[d] = "zero"

\* a job blocked on two jobs has been dispatched, processes being real
C1_Witness ==
  /\ ~m_bDryRun
  /\ \E sj \in dispatched : Cardinality(iterBlockingJobs[sj]) = 2

\* C2: the running jobs never outnumber the concurrency cap
C2_RunningWithinCap == Cardinality(m_dictRunningJobs) <= m_cRunningJobsMax

\* more independent jobs than the cap: the cap is reached while another job
\* is ready
C2_Witness ==
  /\ cJobs > m_cRunningJobsMax
  /\ \A sj \in 1..cJobs : iterBlockingJobs[sj] = {}
  /\ Cardinality(m_dictRunningJobs) = m_cRunningJobsMax
  /\ \E sj \in m_setScheduledJobs : ~blocked(sj)

\* C5: without keep_going and ignore_errors, once a failed job was observed
\* no job is dispatched any more, the running jobs leave the running set only
\* when their process is found to have exited, and the run returns with none
\* running and a result above zero.
C5_StopAfterFailure ==
  [][ (~m_bKeepGoing /\ ~m_bIgnoreErrors /\ failed # {}) =>
        /\ dispatched' = dispatched
        /\ \A sj \in m_dictRunningJobs \ m_dictRunningJobs' :
             returncode[sj] = "None" /\ returncode'[sj] # "None"
        /\ pc # "raised"
        /\ (pc' = "done" => m_dictRunningJobs' = {} /\ result' > 0) ]_vars

\* the run returned after a failure, leaving a ready job pending, and another
\* job that was dispatched has completed as well
C5_Witness ==
  /\ pc = "done"
  /\ ~m_bKeepGoing /\ ~m_bIgnoreErrors
  /\ failed # {}
  /\ \E sj \in m_setScheduledJobs : ~blocked(sj)
  /\ dispatched \ failed # {}

\* C6 as claimed: with keep_going and without ignore_errors, the jobs directly
\* blocked on a failed job leave the pending set and are never dispatched, the
\* jobs that depend on no failed job are dispatched and complete, and the run
\* returns a count that includes the failure.
C6_AsClaimed ==
  (m_bKeepGoing /\ ~m_bIgnoreErrors /\ failed # {}) =>
    /\ \A z \in failed : \A sj \in BlockedOn(z) :
         sj \notin m_setScheduledJobs /\ sj \notin dispatched
    /\ RunEnded =>
         /\ pc = "done"
         /\ result >= Cardinality(failed)
         /\ \A sj \in 1..cJobs :
              (\A z \in failed : sj \notin TransitivelyBlockedOn(z))
                => sj \in dispatched \ m_dictRunningJobs

\* C7 as claimed: with keep_going, every job transitively blocked by a failed
\* job leaves the pending set and is never dispatched, and the run returns
\* normally with the failure counted.
C7_AsClaimed ==
  (m_bKeepGoing /\ failed # {}) =>
    /\ \A z \in failed : \A sj \in TransitivelyBlockedOn(z) :
         sj \notin m_setScheduledJobs /\ sj \notin dispatched
    /\ pc # "raised"
    /\ pc = "done" => result >= Cardinality(failed)

\* C8: with ignore_errors a collected job, whatever its exit status, takes
\* one off the blocks count of exactly the jobs constructed as blocked on it;
\* no job leaves the pending set other than by being dispatched; and once the
\* run has started every scheduled job is eventually dispatched.
C8_IgnoredFailureReleases ==
  /\ [][ m_bIgnoreErrors =>
           /\ \A sj \in m_dictRunningJobs \ m_dictRunningJobs' :
                \A d \in Jobs :
                  m_cBlocks'[d] = m_cBlocks[d] - (IF sj \in iterBlockingJobs[d] THEN 1 ELSE 0)
           /\ m_setScheduledJobs \ m_setScheduledJobs' \subseteq dispatched'
           /\ unscheduled' = {} /\ failed' = {} ]_vars
  /\ (m_bIgnoreErrors /\ pc = "while") ~> (pc = "done" /\ dispatched = 1..cJobs)

\* with ignore_errors, a job blocked on a job that exited non-zero has been
\* dispatched, with and without keep_going
C8_Witness ==
  /\ m_bIgnoreErrors
  /\ \E sj \in dispatched : \E d \in iterBlockingJobs[sj] : returncode[d] = "nonzero"

\* C9 as claimed: with ignore_errors the value returned is the number of
\* dispatched jobs that exited non-zero.
C9_AsClaimed ==
  (pc = "done" /\ m_bIgnoreErrors) => result = Cardinality(ExitedNonZero)

\* C9, amended: with ignore_errors the value returned is 0 whatever the exit
\* statuses of the dispatched jobs.
C9_IgnoredFailuresNotCounted ==
  (pc = "done" /\ m_bIgnoreErrors) => result = 0

\* the run returned with ignore_errors after a job exited non-zero
C9_Witness ==
  /\ pc = "done"
  /\ m_bIgnoreErrors
  /\ ExitedNonZero # {}

\* C10: without ignore_errors the value returned is the number of dispatched
\* jobs that exited non-zero, each counted once.
C10_ResultCountsFailures ==
  (pc = "done" /\ ~m_bIgnoreErrors) =>
    /\ result = Cardinality(ExitedNonZero)
    /\ ExitedNonZero = {sj \in dispatched : returncode[sj] = "nonzero"}
    /\ m_dictRunningJobs = {}
    /\ failed = ExitedNonZero

\* the run returned two failures
C10_Witness ==
  /\ pc = "done"
  /\ ~m_bIgnoreErrors
  /\ result = 2

\* C11: a dispatched job is never pending or started again, and once the run
\* has started, unless some job is found to have exited non-zero, the run
\* returns with every scheduled job dispatched, nothing pending, nothing
\* running and a result of 0.
C11_TerminatesWhenNoJobFails ==
  /\ [][ /\ dispatched \cap m_setScheduledJobs' = {}
         /\ dispatched \cap (m_dictRunningJobs' \ m_dictRunningJobs) = {} ]_vars
  /\ (pc = "while") ~>
       \/ \E sj \in Jobs : returncode[sj] = "nonzero"
       \/ /\ pc = "done"
          /\ dispatched = 1..cJobs
          /\ m_setScheduledJobs = {}
          /\ m_dictRunningJobs = {}
          /\ result = 0

\* a run with real processes returned after a chain of three jobs, each
\* blocked on the one before, all exited with 0
C11_Witness ==
  /\ pc = "done"
  /\ ~m_bDryRun
  /\ cJobs = 3
  /\ iterBlockingJobs[2] = {1} /\ iterBlockingJobs[3] = {2}
  /\ dispatched = 1..cJobs
  /\ \A sj \in 1..cJobs : returncode[sj] = "zero"
  /\ result = 0

\* C20: in a dry run no process is spawned, every collected job counts as
\* exited with 0 and releases the jobs it blocks, a job is dispatched only
\* after the jobs it is blocked on were collected, nothing fails or is
\* unscheduled, and the run returns 0 with every scheduled job dispatched,
\* whatever keep_going and ignore_errors are.
C20_DryRunSucceeds ==
  /\ [](m_bDryRun =>
          /\ spawned = {}
          /\ \A sj \in dispatched \ m_dictRunningJobs :
               returncode[sj] = "zero" /\ sj \in released
          /\ \A sj \in dispatched :
               iterBlockingJobs[sj] \subseteq released \ m_dictRunningJobs
          /\ failed = {} /\ unscheduled = {}
          /\ pc # "raised"
          /\ pc = "done" => result = 0 /\ dispatched = 1..cJobs)
  /\ (m_bDryRun /\ pc = "while") ~> (pc = "done" /\ result = 0 /\ dispatched = 1..cJobs)

\* a dry run of a job blocked on two jobs returned, with keep_going set
C20_Witness ==
  /\ m_bDryRun /\ m_bKeepGoing
  /\ pc = "done"
  /\ iterBlockingJobs[3] = {1, 2}
  /\ dispatched = {1, 2, 3}

\* C21: the construction of a ScheduledJob adds it to the pending set whether
\* or not it is blocked: right after, the job is pending, its blocks count is
\* the number of the blocking jobs passed in and it is in the blocked set of
\* exactly those jobs; a pending job can be dispatched, when the run looks
\* for a job to start, exactly when its blocks count is 0.
C21_PendingAtConstruction ==
  /\ [][cJobs' # cJobs =>
          LET sj == cJobs'
          IN  /\ sj = cJobs + 1
              /\ sj \in m_setScheduledJobs'
              /\ m_cBlocks'[sj] = Cardinality(iterBlockingJobs'[sj])
              /\ \A d \in Jobs :
                   sj \in m_setBlockedJobs'[d] <=> d \in iterBlockingJobs'[sj]]_vars
  /\ [](\A sj \in m_setScheduledJobs :
          pc = "find" => ((ENABLED Dispatch(sj)) <=> m_cBlocks[sj] = 0))

\* A job was constructed blocked by two jobs and is pending with them
C21_Witness ==
  /\ pc = "idle"
  /\ cJobs = 3
  /\ dispatched = {}
  /\ iterBlockingJobs[3] = {1, 2}
  /\ m_cBlocks[3] = 2
  /\ m_setScheduledJobs = {1, 2, 3}

\* C29 as claimed: when run_scheduled_jobs returns, the pending set and the
\* running set are both empty, whatever the failure policy and the outcome.
C29_AsClaimed == pc = "done" => (m_setScheduledJobs = {} /\ m_dictRunningJobs = {})

\* C31: between its entry and its return _collect_completed_jobs(n) takes
\* jobs off the running set one at a time, each one completed and either
\* releasing or counted as failed; it returns only once at least n were taken
\* off, with n = 0 as soon as a pass finds no completed job; the value it
\* returns is the number of the jobs it took off that failed, and 0 whenever
\* ignore_errors is set.
C31_CollectCountsFailures ==
  /\ [](m_bIgnoreErrors => cFailedJobsCollect = 0)
  /\ []((pc = "collect" /\ cJobsToComplete = 0 /\ (m_dictRunningJobs = {} \/ ~m_bDryRun))
          => ENABLED CollectReturn)
  /\ [][(pc # "collect" /\ pc' = "collect") =>
          cCompletedJobs' = 0 /\ cFailedJobsCollect' = 0]_vars
  /\ [][(pc = "collect" /\ pc' = "collect") =>
          /\ Cardinality(m_dictRunningJobs') + cCompletedJobs'
               = Cardinality(m_dictRunningJobs) + cCompletedJobs
          /\ m_dictRunningJobs' \subseteq m_dictRunningJobs
          /\ Cardinality(failed') - cFailedJobsCollect'
               = Cardinality(failed) - cFailedJobsCollect
          /\ \A sj \in m_dictRunningJobs \ m_dictRunningJobs' :
               /\ returncode'[sj] # "None"
               /\ (sj \in released' \ released) # (sj \in failed' \ failed)
               /\ sj \in failed' <=> (returncode'[sj] = "nonzero" /\ ~m_bIgnoreErrors)]_vars
  /\ [][(pc = "collect" /\ pc' \in {"slot", "done"}) =>
          /\ cCompletedJobs >= cJobsToComplete
          /\ m_dictRunningJobs' = m_dictRunningJobs
          /\ collectFrom = "top" => cFailedJobs' = cFailedJobsCollect
          /\ collectFrom = "slot" => cFailedJobs' = cFailedJobs + cFailedJobsCollect
          /\ collectFrom = "final" => result' = cFailedJobsTotal + cFailedJobsCollect]_vars

\* the wait for a free slot has returned 1 after it collected a job that
\* failed, another job having completed and released before
C31_Witness ==
  /\ pc = "slot"
  /\ ~NoFreeSlot
  /\ ~m_bIgnoreErrors
  /\ cFailedJobs = 1
  /\ Cardinality(failed) = 1
  /\ released # {}

\* C35: no job is pending and running at once; a job enters the running set
\* only from the pending set and only if it was never dispatched before; it
\* leaves the running set only when its process is found to have exited; and
\* a job enters the pending set only when it is constructed, never after it
\* was dispatched or unscheduled.
C35_PendingRunningDisjoint ==
  /\ [](/\ m_setScheduledJobs \cap m_dictRunningJobs = {}
        /\ m_setScheduledJobs \cap (dispatched \cup unscheduled) = {}
        /\ m_dictRunningJobs \subseteq dispatched)
  /\ [][/\ \A sj \in m_dictRunningJobs' \ m_dictRunningJobs :
             /\ sj \notin dispatched
             /\ sj \in m_setScheduledJobs /\ sj \notin m_setScheduledJobs'
             /\ Cardinality(m_dictRunningJobs' \ m_dictRunningJobs) = 1
        /\ \A sj \in m_dictRunningJobs \ m_dictRunningJobs' :
             /\ returncode[sj] = "None" /\ returncode'[sj] # "None"
             /\ sj \notin m_setScheduledJobs'
        /\ \A sj \in m_setScheduledJobs' \ m_setScheduledJobs :
             /\ sj = cJobs' /\ cJobs' = cJobs + 1
             /\ pc = "idle"]_vars

\* under keep_going a job failed and the job blocked on it was unscheduled,
\* while a third job was dispatched and has completed
C35_Witness ==
  /\ m_bKeepGoing
  /\ unscheduled # {}
  /\ failed # {}
  /\ released # {}
  /\ m_setScheduledJobs = {}

\* C36: the blocks count of every job is the number of the jobs it was
\* constructed as blocked on that have not released it, and is never
\* negative; it is 0 exactly when each of these jobs has completed and
\* released it.
C36_BlocksCount ==
  \A sj \in 1..cJobs :
    /\ m_cBlocks[sj] = Cardinality(iterBlockingJobs[sj] \ released)
    /\ m_cBlocks[sj] >= 0
    /\ m_cBlocks[sj] = 0 <=>
         \A d \in iterBlockingJobs[sj] : d \in released /\ returncode[d] # "None"
    /\ \A d \in 1..cJobs : (sj \in m_setBlockedJobs[d]) <=> (d \in iterBlockingJobs[sj])

\* a job constructed as blocked on two jobs has been released by one of them
\* and is still blocked by the other, which runs
C36_Witness ==
  \E sj \in m_setScheduledJobs :
    /\ Cardinality(iterBlockingJobs[sj]) = 2
    /\ m_cBlocks[sj] = 1
    /\ \E d \in iterBlockingJobs[sj] : d \in m_dictRunningJobs

----------------------------------------------------------------------------
\* Properties of Make.schedule_target_jobs and Target.build

\* The first and the last job constructed by the build of a target
FirstJob(t) == jobsOf[t][1]
TerminalJob(t) == jobsOf[t][Len(jobsOf[t])]

\* The targets whose schedule_target_jobs call has returned a result
Scheduled == DOMAIN m_dictTargetLastScheduledJobs

RECURSIVE TargetDependenciesWithin(_, _)
TargetDependenciesWithin(S, n) ==
  IF n = 0 THEN S
  ELSE TargetDependenciesWithin(S \cup UNION {tdeps[d] : d \in S}, n - 1)

\* The targets t depends on, directly or through other targets
TargetDependencies(t) == TargetDependenciesWithin(tdeps[t], MaxTargets)

\* schedule_target_jobs is about to call build() for the target of the
\* innermost call
AtBuild ==
  /\ spc = "schedule"
  /\ sframes[Len(sframes)].phase = "deps"
  /\ sframes[Len(sframes)].rest = {}

\* C12 as claimed: once two targets that depend on the same target have been
\* scheduled, the build of the shared target has been invoked once, and if it
\* produced jobs, the first jobs of both are blocked on its terminal job.
C12_AsClaimed ==
  \A A, B, C \in DOMAIN tkind :
    (B # C /\ A \in tdeps[B] /\ A \in tdeps[C] /\ {B, C} \subseteq Scheduled /\ spc = "idle")
      => /\ cBuilds[A] = 1
         /\ jobsOf[A] # <<>> =>
              \A X \in {B, C} :
                /\ jobsOf[X] # <<>>
                /\ TerminalJob(A) \in iterBlockingJobs[FirstJob(X)]

\* C13: at every call of build(), _is_build_needed answers True exactly if
\* there is a blocking job, or the metadata store reports one of the files to
\* check as changed, or force_build is set; with False it returns None for
\* the changed files, with True the files the metadata store reported.
C13_BuildNeededPolicy ==
  AtBuild =>
    LET f == sframes[Len(sframes)]
        reported == file_metadata_changed(FilesToCheck(f.tgt))
        ret == is_build_needed(f.listBlockingJobs, FilesToCheck(f.tgt))
    IN  /\ ret.bBuildNeeded <=>
             (f.listBlockingJobs # <<>> \/ reported # {} \/ m_bForceBuild)
        /\ ~ret.bBuildNeeded => ret.iterChangedFiles.none
        /\ ret.bBuildNeeded =>
             ~ret.iterChangedFiles.none /\ ret.iterChangedFiles.files = reported

\* build() is about to be called with a blocking job for a target none of
\* whose files changed, while another file did, without force_build
C13_Witness ==
  /\ AtBuild
  /\ ~m_bForceBuild
  /\ sframes[Len(sframes)].listBlockingJobs # <<>>
  /\ changed_files # {}
  /\ file_metadata_changed(FilesToCheck(sframes[Len(sframes)].tgt)) = {}

\* C14: a scheduled target has jobs whenever one of its dependencies has, and
\* its first job is blocked on the terminal job of each such dependency; so
\* when the source file of a processed source changed, every target between
\* a scheduled requested target and that source has jobs.
C14_StalenessPropagates ==
  /\ \A B \in Scheduled : \A A \in tdeps[B] :
       jobsOf[A] # <<>> =>
         /\ jobsOf[B] # <<>>
         /\ TerminalJob(A) \in iterBlockingJobs[FirstJob(B)]
  /\ \A L \in DOMAIN tkind : \A R \in requested \cap Scheduled :
       (tkind[L] = "ProcessedSourceTarget" /\ source_file_path(L) \in changed_files)
         => \A t \in TargetDependencies(R) \cup {R} :
              (t = L \/ L \in TargetDependencies(t)) => jobsOf[t] # <<>>

\* without force_build, a requested target was scheduled that depends, through
\* another target, on a processed source whose source file changed
C14_Witness ==
  /\ ~m_bForceBuild
  /\ spc = "idle"
  /\ \E R \in requested \cap Scheduled : \E M \in tdeps[R] : \E L \in tdeps[M] :
       /\ tkind[L] = "ProcessedSourceTarget"
       /\ changed_files = {source_file_path(L)}
       /\ tkind[R] # "ExecutableUnitTestTarget"

\* C15 as claimed: with no changed file reported and without force_build, no
\* job is created for any target.
C15_AsClaimed ==
  (changed_files = {} /\ ~m_bForceBuild) => cJobs = 0

\* C16: with force_build and no changed file, _is_build_needed answers True
\* also without blocking jobs, and every target scheduled, which includes
\* every target a scheduled requested target depends on, has a job.
C16_ForcedRebuild ==
  (m_bForceBuild /\ changed_files = {}) =>
    /\ AtBuild =>
         is_build_needed(<<>>, FilesToCheck(sframes[Len(sframes)].tgt)).bBuildNeeded
    /\ \A t \in Scheduled : jobsOf[t] # <<>> /\ m_dictTargetLastScheduledJobs[t] # 0
    /\ \A R \in requested \cap Scheduled : TargetDependencies(R) \subseteq Scheduled
    /\ spc # "raised"

\* with force_build and nothing changed, a comparison test and the processed
\* source it compares were scheduled
C16_Witness ==
  /\ m_bForceBuild /\ changed_files = {}
  /\ spc = "idle"
  /\ \E R \in requested \cap Scheduled :
       /\ tkind[R] = "ComparisonUnitTestTarget"
       /\ jobsOf[R] # <<>>
       /\ \A d \in tdeps[R] : jobsOf[d] # <<>>

\* C27: schedule_target_jobs is a post-order traversal: when build() is
\* invoked for a target, schedule_target_jobs has returned for every one of
\* its dependencies and none of them is being visited, and the blocking list
\* handed to build() holds, once each, the terminal jobs of the dependencies
\* that produced a job, and nothing else.
C27_PostOrder ==
  [][\A t \in DOMAIN tkind :
       cBuilds'[t] # cBuilds[t] =>
         LET f == sframes[Len(sframes)]
         IN  /\ f.tgt = t
             /\ \A d \in tdeps[t] :
                  /\ d \in Scheduled
                  /\ cBuilds[d] >= 1
                  /\ \A i \in 1..Len(sframes) : sframes[i].tgt # d
             /\ \A i, k \in 1..Len(f.listBlockingJobs) :
                  f.listBlockingJobs[i] = f.listBlockingJobs[k] => i = k
             /\ RangeOf(f.listBlockingJobs) =
                  {TerminalJob(d) : d \in {e \in tdeps[t] : jobsOf[e] # <<>>}}]_vars

\* a target with two dependencies, of which one produced a job and the other
\* none, was built with a job blocked by that one job
C27_Witness ==
  /\ spc = "idle"
  /\ \E t \in Scheduled :
       /\ Cardinality(tdeps[t]) = 2
       /\ cBuilds[t] = 1
       /\ jobsOf[t] # <<>>
       /\ \E d \in tdeps[t] : iterBlockingJobs[FirstJob(t)] = {TerminalJob(d)}
       /\ \E d \in tdeps[t] : jobsOf[d] = <<>>

\* C28 as claimed: schedule_target_jobs invokes build() at most once per
\* target, also for a target whose build() returned no job.
C28_AsClaimed == \A t \in DOMAIN tkind : cBuilds[t] <= 1

----------------------------------------------------------------------------
\* Properties of Core.validate_dependency_graph

RECURSIVE DependenciesWithin(_, _)
DependenciesWithin(S, n) ==
  IF n = 0 THEN S
  ELSE DependenciesWithin(S \cup UNION {vdeps[d] : d \in S}, n - 1)

\* Targets t depends on, directly or through other targets
TransitiveDependencies(t) == DependenciesWithin(vdeps[t], MaxTargets)

HasCycle == \E t \in Targets : t \in TransitiveDependencies(t)

\* C3: validate_dependency_graph raises DependencyCycleError exactly for the
\* dependency relations that have a cycle, whatever the iteration orders.
C3_RaisesIffCycle ==
  /\ vpc = "raised" => HasCycle
  /\ vpc = "returned" => ~HasCycle

\* returned normally for an acyclic graph in which target 1 is a dependency
\* shared by 2 and 3 and reached along two paths from 3
C3_Witness ==
  /\ vpc = "returned"
  /\ vdeps[1] = {} /\ vdeps[2] = {1} /\ vdeps[3] = {1, 2}

\* C4: the list carried by DependencyCycleError is a cycle in dependency
\* order: no target twice, each depends directly on the next, the last on the
\* first; a target depending on itself is reported alone when that is the
\* only cycle.
C4_CycleIsGenuine ==
  vpc = "raised" =>
    /\ Len(cycle) >= 1
    /\ \A i, k \in 1..Len(cycle) : cycle[i] = cycle[k] => i = k
    /\ \A i \in 1..(Len(cycle) - 1) : cycle[i + 1] \in vdeps[cycle[i]]
    /\ cycle[1] \in vdeps[cycle[Len(cycle)]]
    /\ \A i \in 1..Len(cycle) : cycle[i] \in TransitiveDependencies(cycle[i])
    /\ \A t \in Targets :
         (t \in vdeps[t] /\ \A u \in Targets : u \in TransitiveDependencies(u) => u = t)
           => cycle = <<t>>
    /\ \A a, b \in Targets :
         (/\ a # b
          /\ b \in vdeps[a] /\ a \in vdeps[b]
          /\ a \notin vdeps[a] /\ b \notin vdeps[b]
          /\ {u \in Targets : u \in TransitiveDependencies(u)} = {a, b})
           => {cycle[i] : i \in 1..Len(cycle)} = {a, b}

\* a cycle of two targets was reported while a third target, which leads
\* into the cycle, was among the ancestors
C4_Witness ==
  /\ vpc = "raised"
  /\ Len(cycle) = 2
  /\ Len(dependents) = 3

\* C26: during one validate_dependency_graph run
\* _validate_dependency_subtree is entered at most once per target and never
\* for a target of the validated set, and at every step the ancestors hold no
\* target twice and none of the validated set.
C26_SubtreeEnteredOnce ==
  /\ [](/\ \A t \in Targets : cSubtreeCalls[t] <= 1
        /\ \A i, k \in 1..Len(dependents) : dependents[i] = dependents[k] => i = k
        /\ \A i \in 1..Len(dependents) : dependents[i] \notin validated_subtrees)
  /\ [][\A t \in Targets :
          cSubtreeCalls'[t] # cSubtreeCalls[t]
            => /\ t \notin validated_subtrees
               /\ cSubtreeCalls[t] = 0
               /\ dependents' = Append(dependents, t)]_vars

\* the graph was validated, target 1 is a dependency of both 2 and 3, which
\* were both validated after it: it was met again and not entered
C26_Witness ==
  /\ vpc = "returned"
  /\ 1 \in vdeps[2] /\ 1 \in vdeps[3]
  /\ validated_subtrees = Targets
  /\ cSubtreeCalls[1] = 1

\* C34: when validate_dependency_graph has returned, no call of
\* _validate_dependency_subtree is active, the ancestors are empty, and the
\* validated set holds every registered target and, with a target, each of
\* its dependencies, hence every target that can be reached from one.
C34_AllValidatedOnReturn ==
  vpc = "returned" =>
    /\ dependents = <<>>
    /\ vframes = <<>>
    /\ vtodo = {}
    /\ Targets \subseteq validated_subtrees
    /\ \A t \in validated_subtrees :
         vdeps[t] \subseteq validated_subtrees /\ TransitiveDependencies(t) \subseteq validated_subtrees

\* the graph in which 3 depends on 2 and 2 on 1 was validated: the
\* ancestors were three deep and are empty again
C34_Witness ==
  /\ vpc = "returned"
  /\ vdeps[3] = {2} /\ vdeps[2] = {1} /\ vdeps[1] = {}
  /\ dependents = <<>>
  /\ validated_subtrees = {1, 2, 3}


----------------------------------------------------------------------------
\* Properties of the registries of Core

\* Every entry of the registry is in it, unchanged, after the step
Kept(registry, registryAfter) ==
  \A k \in DOMAIN registry : k \in DOMAIN registryAfter /\ registryAfter[k] = registry[k]

\* C19: each file path, each target name and each repo maps to the first
\* object registered for it: no call of add_file_target, add_named_target or
\* add_external_dependency changes or removes an entry, and a call with a key
\* that is already registered raises KeyError and leaves every registry as it
\* was.
C19_FirstRegistrationWins ==
  [][/\ Kept(file_targets, file_targets')
     /\ Kept(named_targets, named_targets')
     /\ Kept(external_dependencies, external_dependencies')
     /\ external_dependencies_incl_transitive \subseteq external_dependencies_incl_transitive'
     /\ \A object \in Objects, key \in Keys :
          /\ (add_file_target(object, key) /\ key \in DOMAIN file_targets) \/
             (add_named_target(object, key) /\ key \in DOMAIN named_targets) \/
             (add_external_dependency(object, key) /\ key \in DOMAIN external_dependencies)
             => /\ registry_raised' = "KeyError"
                /\ UNCHANGED <<file_targets, named_targets, external_dependencies,
                               external_dependencies_incl_transitive>>
          /\ (add_file_target(object, key) /\ key \notin DOMAIN file_targets)
             => registry_raised' = "none" /\ file_targets'[key] = object
          /\ (add_named_target(object, key) /\ key \notin DOMAIN named_targets)
             => registry_raised' = "none" /\ named_targets'[key] = object
          /\ (add_external_dependency(object, key) /\ key \notin DOMAIN external_dependencies)
             => registry_raised' = "none" /\ external_dependencies'[key] = object
     /\ registry_raised' = "KeyError" =>
          UNCHANGED <<file_targets, named_targets, external_dependencies,
                      external_dependencies_incl_transitive>>]_vars

\* A call with a registered key was refused while every registry has an entry
C19_Witness ==
  /\ registry_raised = "KeyError"
  /\ DOMAIN file_targets # {}
  /\ DOMAIN named_targets # {}
  /\ DOMAIN external_dependencies # {}

----------------------------------------------------------------------------
\* Properties of Core.build_targets and Core.parse

\* C17 as claimed: in every configuration and on every exit path
\* MetadataStore.write() has been invoked exactly once when build_targets
\* returns or its exception propagates.
C17_AsClaimed ==
  bpc \in {"returned", "raised"} => metadata_writes = 1

\* C17: unless dry_run is set, on every exit path MetadataStore.write() is
\* invoked exactly once, after job execution has ended and before
\* build_targets returns or the exception propagates; with dry_run it is not
\* invoked at all.
C17_WrittenOnceUnlessDryRun ==
  /\ bpc \in {"returned", "raised"} => metadata_writes = IF dry_run THEN 0 ELSE 1
  /\ bpc \in {"try", "run", "finally"} => metadata_writes = 0

\* The store was written before an exception of the job runner propagated
C17_Witness ==
  /\ bpc = "raised"
  /\ bexc = "runner"
  /\ ~dry_run
  /\ failed_jobs > 0
  /\ metadata_writes = 1

\* C18: in parse the metadata store is loaded only when validate() of every
\* target and then validate_dependency_graph have returned; if the graph has
\* a cycle, parse does not return: once graph validation has started it ends
\* with DependencyCycleError, the metadata store still unset, no job queued
\* and no process spawned.
C18_ValidatedBeforeAnythingRuns ==
  /\ vpc # "pending" => targets_validated = Targets
  /\ metadata # "None" => targets_validated = Targets /\ vpc = "returned" /\ ppc = "returned"
  /\ ppc = "returned" => ~HasCycle /\ metadata # "None"
  /\ vpc = "raised" => HasCycle /\ metadata = "None"
  /\ ppc = "raised" =>
       /\ metadata = "None"
       /\ HasCycle /\ targets_validated = Targets => perror = "DependencyCycleError"
       /\ bpc = "idle" /\ queued = 0 /\ cJobs = 0 /\ spawned = {}

\* parse raised DependencyCycleError
C18_Witness ==
  /\ ppc = "raised"
  /\ perror = "DependencyCycleError"
  /\ HasCycle
  /\ metadata = "None"

\* C32: build_targets calls build_targets of the external dependencies one
\* after the other, each call returning before the next is made, and calls
\* start_build of a target of its own, and run of its own job runner, only
\* when the call for every external dependency has returned.
C32_DependenciesBuiltFirst ==
  /\ [][/\ deps_todo' \subseteq deps_todo \/ bpc = "idle"
        /\ Cardinality(deps_todo \ deps_todo') <= 1
        /\ ((bpc = "try" /\ targets_todo' # targets_todo) \/ queued' # queued \/ bpc' = "run")
             => (deps_todo = {} /\ deps_todo' = {} /\ bexc = "none")]_vars
  /\ [](bpc \in {"run", "returned"} => deps_todo = {})

\* the job runner runs jobs of the project's targets after the build_targets
\* calls of two external dependencies returned, one of them with False
C32_Witness ==
  /\ bpc = "run"
  /\ Cardinality(DOMAIN external_dependencies) = 2
  /\ deps_failed
  /\ queued >= 1

\* C33 as claimed: build_targets returns False if the build_targets call of
\* an external dependency returned False.
C33_AsClaimed == (bpc = "returned" /\ deps_failed) => build_result = "False"

----------------------------------------------------------------------------
\* Properties of build requests: targets scheduled, then run_scheduled_jobs

\* C22: the job ExecutableUnitTestTarget.build returns, which
\* schedule_target_jobs records for the target, is the job that runs the
\* test; if the link step returned a job, the test job is blocked on exactly
\* that job, and it is started only after that job completed and released
\* it; if the link step returned none, the test job is blocked on nothing.
C22_TestAfterLink ==
  /\ [][testJobs' # testJobs =>
          LET f == sframes[Len(sframes)]
              jobTest == cJobs'
          IN  /\ tkind[f.tgt] = "ExecutableUnitTestTarget"
              /\ testJobs' = testJobs \cup {jobTest}
              /\ jobTest \notin testJobs
              /\ m_dictTargetLastScheduledJobs'[f.tgt] = jobTest
              /\ jobsOf'[f.tgt][Len(jobsOf'[f.tgt])] = jobTest
              /\ IF f.sj # 0
                 THEN /\ iterBlockingJobs'[jobTest] = {f.sj}
                      /\ m_cBlocks'[jobTest] = 1
                      /\ f.sj \notin testJobs
                      /\ jobsOf[f.tgt][Len(jobsOf[f.tgt])] = f.sj
                 ELSE /\ iterBlockingJobs'[jobTest] = {}
                      /\ m_cBlocks'[jobTest] = 0]_vars
  /\ [][\A jobTest \in testJobs :
          jobTest \in dispatched' \ dispatched =>
            \A jobBuild \in iterBlockingJobs[jobTest] :
              /\ jobBuild \in released
              /\ jobBuild \notin m_dictRunningJobs
              /\ returncode[jobBuild] # "None"]_vars

\* The test of an executable test target runs, its link job having completed
C22_Witness ==
  \E jobTest \in testJobs :
    /\ jobTest \in m_dictRunningJobs
    /\ iterBlockingJobs[jobTest] # {}

\* C23: a build that returns no job was given no blocking job, so none of
\* the target's dependencies returned a job; neither the assertion of
\* schedule_target_jobs nor that of ExecutableUnitTestTarget.build fails,
\* whatever the targets, the changed files and force_build.
C23_AssertionsHold ==
  /\ spc # "raised"
  /\ AtBuild =>
       LET f == sframes[Len(sframes)]
       IN  ~is_build_needed(f.listBlockingJobs, FilesToCheck(f.tgt)).bBuildNeeded
             => f.listBlockingJobs = <<>>
  /\ \A i \in 1..Len(sframes) :
       (sframes[i].phase = "test" /\ sframes[i].sj = 0) => sframes[i].listBlockingJobs = <<>>
  /\ \A t \in Scheduled :
       m_dictTargetLastScheduledJobs[t] = 0 =>
         \A d \in tdeps[t] : d \in Scheduled /\ m_dictTargetLastScheduledJobs[d] = 0

\* Jobs were scheduled for some target, and none for a target that has
\* dependencies
C23_Witness ==
  /\ spc = "idle"
  /\ cJobs > 0
  /\ \E t \in Scheduled : m_dictTargetLastScheduledJobs[t] = 0 /\ tdeps[t] # {}

\* The source or link inputs of a target whose build() is called: the source
\* file of a processed source, the output of every target among the linker
\* inputs of a link target and every external library it names, the expected
\* output and the compared output of a comparison test
DirectInputs(t) ==
  CASE tkind[t] = "ProcessedSourceTarget" -> {source_file_path(t)}
    [] tkind[t] \in LinkKinds ->
         {file_path(d) : d \in {d \in tdeps[t] : <<"target", d>> \in m_listLinkerInputs[t]}}
           \cup {lib \in m_listLinkerInputs[t] : lib[1] = "lib"}
    [] tkind[t] = "ComparisonUnitTestTarget" ->
         {m_sExpectedOutputFilePath(t)}
           \cup {file_path(d) : d \in {d \in tdeps[t] : tkind[d] = "ProcessedSourceTarget"}}

\* C24 as claimed: for every target kind, the files passed to
\* _is_build_needed contain the target's own output file path and all its
\* direct source or link inputs.
C24_AsClaimed ==
  AtBuild =>
    LET t == sframes[Len(sframes)].tgt
    IN  {file_path(t)} \cup DirectInputs(t) \subseteq FilesToCheck(t)

\* C24: the files passed to _is_build_needed are, for a processed source and
\* for a link target, the target's own output file path and all its direct
\* source or link inputs, and for a comparison test, which has no output
\* file, the expected output and the output of the compared target only.
C24_FilesToCheck ==
  AtBuild =>
    LET t == sframes[Len(sframes)].tgt
    IN  /\ DirectInputs(t) # {}
        /\ tkind[t] # "ComparisonUnitTestTarget" =>
             FilesToCheck(t) = {file_path(t)} \cup DirectInputs(t)
        /\ tkind[t] = "ComparisonUnitTestTarget" =>
             /\ FilesToCheck(t) = DirectInputs(t)
             /\ file_path(t) \notin FilesToCheck(t)

\* build() is about to be called for a link target that links a processed
\* source and a dynamic library of the project
C24_Witness ==
  /\ AtBuild
  /\ LET t == sframes[Len(sframes)].tgt
     IN  /\ tkind[t] \in LinkKinds
         /\ \E d, e \in tdeps[t] :
              tkind[d] = "ProcessedSourceTarget" /\ tkind[e] = "DynLibTarget"

----------------------------------------------------------------------------
\* Properties of yaml.parse_string

\* The lines of a source as find_and_consume_doc_start and __call__ see
\* them, one after the other, up to the end of the source
RECURSIVE LinesSeen(_)
LinesSeen(iterLines) ==
  LET ret == next_line(iterLines)
  IN  IF ret.sLine = NoneLine THEN <<>> ELSE <<ret.sLine>> \o LinesSeen(ret.iterLines)

\* A line of the source that holds a comment only
IsCommentLine(sLine) ==
  reIndent_len(sLine) < Len(sLine) /\ sLine[reIndent_len(sLine) + 1] = "#"

\* The lines of a source that are neither empty nor a comment, as written
WrittenLines(source) == SelectSeq(source, LAMBDA sLine : sLine # <<>> /\ ~IsCommentLine(sLine))

DocStartConsumed == ypc \in {"body", "consume_object", "returned", "raised"}

\* C25 as stated: a source whose first non-empty, non-comment line is not
\* exactly "%YAML 1.2", or whose directive is not followed by a line that is
\* exactly "---", makes parse_string raise SyntaxError.
C25_AsClaimed ==
  DocStartConsumed =>
    LET written == WrittenLines(ySource)
    IN  (\/ written = <<>>
         \/ written[1] # <<"%YAML 1.2">>
         \/ Len(written) < 2
         \/ written[2] # <<"---">>)
          => (ypc = "raised" /\ yerror # "none" /\ yresult = "none")

\* C25: parse_string raises SyntaxError, and returns no object, for every
\* source whose first line that is not empty once its terminator and its
\* comment are removed is, without its indentation, not "%YAML 1.2"
\* (including the empty source), and for every source in which the next such
\* line is missing or is not "---"; for every other source it does not raise
\* there.  An error message is set exactly when SyntaxError is raised.
C25_DocStartRequired ==
  /\ (ypc = "raised") <=> (yerror # "none")
  /\ ypc = "raised" => yresult = "none"
  /\ DocStartConsumed =>
       LET seen == LinesSeen(splitlines(ySource, FALSE))
       IN  /\ (seen = <<>> \/ seen[1] # <<"%YAML 1.2">>)
                <=> (ypc = "raised" /\ yerror = "expected %YAML directive")
           /\ (seen # <<>> /\ seen[1] = <<"%YAML 1.2">> /\ Len(seen) < 2)
                <=> (ypc = "raised" /\ yerror = "missing document start")
           /\ (Len(seen) >= 2 /\ seen[1] = <<"%YAML 1.2">> /\ seen[2] # <<"---">>)
                <=> (ypc = "raised" /\ yerror = "unexpected directive")

\* A source with the directive, a comment and then a line that is not the
\* document start has made parse_string raise
C25_Witness ==
  /\ ypc = "raised"
  /\ yerror = "unexpected directive"
  /\ Len(ySource) = 3
  /\ ySource[2] = <<"#", "x">>
  /\ ySource[3] = <<"x">>

\* The messages of the yaml.SyntaxError exceptions that the parser raises
SyntaxErrorMessages ==
  {"expected %YAML directive", "missing document start", "unexpected directive",
   "map key expected"}

\* C39 as stated: parse_string ends either returning a parsed object (None
\* for an empty document body) or raising yaml.SyntaxError, never with any
\* other exception, also when a map key or a sequence item without a value
\* is the last line of the source.
C39_AsClaimed ==
  /\ ypc = "returned" => (yresult \in {"None", "str", "dict", "list"} /\ yerror = "none")
  /\ ypc = "raised" => yerror \in SyntaxErrorMessages

\* C37: every job that schedule_target_jobs produced is blocked only on jobs
\* constructed before it, so the blocking relation has no cycle; and as long
\* as no job has failed, whenever a job is pending some pending job is not
\* blocked or some job is running.
C37_NoDeadlockAmongJobs ==
  /\ \A sj \in 1..cJobs :
       /\ \A b \in iterBlockingJobs[sj] : b < sj
       /\ sj \notin TransitivelyBlockedOn(sj)
  /\ (failed = {} /\ m_setScheduledJobs # {}) =>
       \/ \E sj \in m_setScheduledJobs : ~blocked(sj)
       \/ m_dictRunningJobs # {}

\* during a run in which no job failed, the job of a target waits, blocked,
\* for the running job of one of its dependencies
C37_Witness ==
  /\ pc \notin {"idle", "done"}
  /\ failed = {}
  /\ m_setScheduledJobs # {}
  /\ \A sj \in m_setScheduledJobs : blocked(sj)
  /\ \E t \in DOMAIN tkind : \E d \in tdeps[t] :
       /\ jobsOf[t] # <<>> /\ jobsOf[d] # <<>>
       /\ FirstJob(t) \in m_setScheduledJobs
       /\ TerminalJob(d) \in m_dictRunningJobs

----------------------------------------------------------------------------
\* Properties of parse_makefile_child

\* C38: whatever <source>, <dynlib> and <unittest> elements were parsed, on
\* whatever targets and in whatever order, every linker input of a target
\* that is a Target is one of its dependencies, every other linker input is
\* the name of a library the makefile does not build, and only link targets
\* have linker inputs.
C38_LinkerInputsAreDependencies ==
  \A t \in DOMAIN tkind :
    /\ \A oLib \in m_listLinkerInputs[t] :
         IF oLib[1] = "target"
         THEN oLib[2] \in tdeps[t] /\ oLib[2] \in DOMAIN tkind
         ELSE oLib = external_lib(t)
    /\ m_listLinkerInputs[t] # {} => tkind[t] \in LinkKinds

\* a dynamic library named a program in <unittest>: the program links to the
\* library and depends on it; the program also links to an external library
C38_Witness ==
  \E t, u \in DOMAIN tkind :
    /\ tkind[t] = "DynLibTarget"
    /\ tkind[u] = "ExecutableTarget"
    /\ <<"target", t>> \in m_listLinkerInputs[u]
    /\ external_lib(u) \in m_listLinkerInputs[u]
    /\ tdeps[u] = {t}

----------------------------------------------------------------------------
\* Properties of run_scheduled_jobs followed by another build request

\* C30: run_scheduled_jobs empties the memo of the targets' last jobs on
\* entry, before any job is dispatched, and leaves the pending set, the
\* running set and every blocks count as they are in doing so; hence no
\* schedule_target_jobs call made after a run has started returns, collects
\* as blocking or blocks a new job on a job created before that run.
C30_MemoClearedOnEntry ==
  /\ [][(pc = "idle" /\ pc' # "idle") =>
          /\ DOMAIN m_dictTargetLastScheduledJobs' = {}
          /\ m_setScheduledJobs' = m_setScheduledJobs
          /\ m_dictRunningJobs' = m_dictRunningJobs
          /\ m_cBlocks' = m_cBlocks
          /\ dispatched' = dispatched]_vars
  /\ [](/\ \A t \in DOMAIN m_dictTargetLastScheduledJobs :
             m_dictTargetLastScheduledJobs[t] # 0
               => m_dictTargetLastScheduledJobs[t] > cJobsBeforeRun
        /\ \A i \in 1..Len(sframes) :
             /\ sframes[i].sj # 0 => sframes[i].sj > cJobsBeforeRun
             /\ \A k \in 1..Len(sframes[i].listBlockingJobs) :
                  sframes[i].listBlockingJobs[k] > cJobsBeforeRun
        /\ \A sj \in 1..cJobs :
             sj > cJobsBeforeRun => \A b \in iterBlockingJobs[sj] : b > cJobsBeforeRun)

\* after a run that had jobs, a target was scheduled again and its new job is
\* blocked on the new job of a dependency, whose earlier job still exists
C30_Witness ==
  /\ cJobsBeforeRun > 0
  /\ spc = "idle"
  /\ \E t \in DOMAIN m_dictTargetLastScheduledJobs :
       /\ Len(jobsOf[t]) >= 2
       /\ FirstJob(t) <= cJobsBeforeRun
       /\ m_dictTargetLastScheduledJobs[t] > cJobsBeforeRun
       /\ iterBlockingJobs[m_dictTargetLastScheduledJobs[t]] # {}

====
